---- MODULE Spec2Model ----
(***************************************************************************)
(* A model of the JSON value library of newsScroller (src/cJSON.c):        *)
(* the recursive-descent parser, the two serializers and the shared        *)
(* error position.  Texts are sequences of byte values; the terminating    *)
(* NUL of a C string is implicit (position Len(text), 0-based).            *)
(***************************************************************************)
EXTENDS Integers, Sequences, FiniteSets, TLC

(***************************************************************************)
(* Characters.  Ch("x") is the byte value of the character x.              *)
(***************************************************************************)
\* the printable ASCII characters, in code order from 32 (space)
AsciiTable ==
  <<" ", "!", "\"", "#", "$", "%", "&", "'", "(", ")", "*", "+",
     ",", "-", ".", "/", "0", "1", "2", "3", "4", "5", "6", "7",
     "8", "9", ":", ";", "<", "=", ">", "?", "@", "A", "B", "C",
     "D", "E", "F", "G", "H", "I", "J", "K", "L", "M", "N", "O",
     "P", "Q", "R", "S", "T", "U", "V", "W", "X", "Y", "Z", "[",
     "\\", "]", "^", "_", "grave", "a", "b", "c", "d", "e", "f", "g",
     "h", "i", "j", "k", "l", "m", "n", "o", "p", "q", "r", "s",
     "t", "u", "v", "w", "x", "y", "z", "{", "|", "}", "~">>

Ascii ==
  [c \in {AsciiTable[i] : i \in 1..Len(AsciiTable)} |->
     31 + (CHOOSE i \in 1..Len(AsciiTable) : AsciiTable[i] = c)]

Ch(c) == Ascii[c]

\* The bytes of a text written as a tuple of one-character strings.
Bytes(cs) == [i \in 1..Len(cs) |-> Ascii[cs[i]]]

\* An optional value: <<>> is the NULL pointer, <<v>> a pointer to v.
None == <<>>
Some(v) == <<v>>

\* A position that is the NULL pointer, and "no error position was stored".
NullPos == -1

(***************************************************************************)
(* Memory read through a pointer into the input text: the bytes of the     *)
(* text, then its NUL terminator, then whatever lies behind the buffer     *)
(* (cx.slack, chosen by the environment).                                  *)
(***************************************************************************)
Mem(t, cx, i) ==
  IF i < Len(t) THEN t[i + 1]
  ELSE IF i = Len(t) THEN 0
  ELSE cx.slack

\* The C string stored in a byte buffer: the bytes before the first NUL.
RECURSIVE CStr(_)
CStr(b) ==
  IF b = <<>> \/ Head(b) = 0 THEN <<>>
  ELSE <<Head(b)>> \o CStr(Tail(b))

\* memset(node, 0, sizeof(cJSON)): a node with every field cleared.
\* child is the sibling chain reached from node->child, in next order.
cJSON_New_Item ==
  [type |-> 0, valuestring |-> None, valueint |-> 0,
   valuedouble |-> [neg |-> FALSE, mant |-> 0, exp |-> 0],
   string |-> None, child |-> <<>>]

cJSON_False  == 1
cJSON_True   == 2
cJSON_NULL   == 4
cJSON_Number == 8
cJSON_String == 16
cJSON_Array  == 32
cJSON_Object == 64

RECURSIVE Pow10(_)
Pow10(k) == IF k <= 0 THEN 1 ELSE 10 * Pow10(k - 1)

(***************************************************************************)
(* A double is modelled by the decimal sign * mant * 10^exp, kept in a     *)
(* canonical form (mant carries no factor 10).  The model draws numbers    *)
(* whose value is an integer below 2^31, for which the double arithmetic   *)
(* of parse_number is exact; binary rounding is not modelled.              *)
(***************************************************************************)
RECURSIVE Canon(_)
Canon(d) ==
  IF d.mant = 0 THEN [neg |-> d.neg, mant |-> 0, exp |-> 0]
  ELSE IF d.mant % 10 = 0
       THEN Canon([neg |-> d.neg, mant |-> d.mant \div 10, exp |-> d.exp + 1])
       ELSE d

\* (int)n; a mantissa has at most ten digits, so a value with an exponent
\* below -9 is below one
TruncInt(d) ==
  LET m == IF d.exp >= 0 THEN d.mant * Pow10(d.exp)
           ELSE IF d.exp < -9 THEN 0
           ELSE d.mant \div Pow10(0 - d.exp)
  IN IF d.neg THEN 0 - m ELSE m

IsDigit(c) == c >= Ch("0") /\ c <= Ch("9")

RECURSIVE NumDigits(_, _, _, _, _)
\* the do-while loops of parse_number: n = n*10 + digit; scale-- in the fraction
NumDigits(t, cx, num, n, frac) ==
  IF IsDigit(Mem(t, cx, num + 1))
  THEN NumDigits(t, cx, num + 1,
                 [n |-> (n.n * 10) + (Mem(t, cx, num) - Ch("0")),
                  scale |-> IF frac THEN n.scale - 1 ELSE n.scale,
                  num |-> num + 1], frac)
  ELSE [n |-> (n.n * 10) + (Mem(t, cx, num) - Ch("0")),
        scale |-> IF frac THEN n.scale - 1 ELSE n.scale,
        num |-> num + 1]

RECURSIVE ExpDigits(_, _, _, _)
ExpDigits(t, cx, num, subscale) ==
  IF IsDigit(Mem(t, cx, num))
  THEN ExpDigits(t, cx, num + 1, (subscale * 10) + (Mem(t, cx, num) - Ch("0")))
  ELSE [subscale |-> subscale, num |-> num]

\* The least power of ten that is not zero as a double: 10^-324 is below
\* half of the least positive double 2^-1074, so pow(10.0, k) is 0 for every
\* k below MinPow10.  The texts of the model have no exponent above 308,
\* where pow(10.0, k) is an infinity.
MinPow10 == -323

\* sign * n * pow(10.0, scale)
Scaled(neg, n, scale) ==
  IF scale < MinPow10 THEN [neg |-> neg, mant |-> 0, exp |-> 0]
  ELSE Canon([neg |-> neg, mant |-> n, exp |-> scale])

\* the stores of parse_number, n being the value computed
NumberStores(item, n, num) ==
  [node |-> [item EXCEPT !.valuedouble = n,
                         !.valueint = TruncInt(n),
                         !.type = cJSON_Number],
   pos  |-> num]

\* n = sign * n * pow(10.0, scale + subscale * signsubscale), and the stores
NumberResult(item, neg, n, scale, num) ==
  NumberStores(item, Scaled(neg, n, scale), num)

\* the exponent, once its digits ex are read
NumberExponent(item, neg, a, signsubscale, ex) ==
  NumberResult(item, neg, a.n, a.scale + (ex.subscale * signsubscale), ex.num)

\* from the position a.num behind the fraction
NumberExp(item, t, cx, neg, a) ==
  IF Mem(t, cx, a.num) = Ch("e") \/ Mem(t, cx, a.num) = Ch("E")
  THEN NumberExponent(item, neg, a,
         IF Mem(t, cx, a.num + 1) = Ch("-") THEN -1 ELSE 1,
         ExpDigits(t, cx,
                   IF Mem(t, cx, a.num + 1) = Ch("+") \/ Mem(t, cx, a.num + 1) = Ch("-")
                   THEN a.num + 2 ELSE a.num + 1, 0))
  ELSE NumberResult(item, neg, a.n, a.scale, a.num)

\* from the position a.num behind the integer part
NumberFraction(item, t, cx, neg, a) ==
  NumberExp(item, t, cx, neg,
            IF Mem(t, cx, a.num) = Ch(".") /\ IsDigit(Mem(t, cx, a.num + 1))
            THEN NumDigits(t, cx, a.num + 1, a, TRUE) ELSE a)

\* from the position num behind the sign and one leading zero
NumberInteger(item, t, cx, neg, num) ==
  NumberFraction(item, t, cx, neg,
                 IF Mem(t, cx, num) >= Ch("1") /\ Mem(t, cx, num) <= Ch("9")
                 THEN NumDigits(t, cx, num, [n |-> 0, scale |-> 0, num |-> num], FALSE)
                 ELSE [n |-> 0, scale |-> 0, num |-> num])

\* from the position num behind the sign
NumberZero(item, t, cx, neg, num) ==
  NumberInteger(item, t, cx, neg,
                IF Mem(t, cx, num) = Ch("0") THEN num + 1 ELSE num)

\* parse_number: never fails; returns the node and the position after the number.
parse_number(item, t, cx, num) ==
  NumberZero(item, t, cx, Mem(t, cx, num) = Ch("-"),
             IF Mem(t, cx, num) = Ch("-") THEN num + 1 ELSE num)

(***************************************************************************)
(* parse_hex4: four hex digits read at input[0..3]; ok = FALSE on a        *)
(* non-hex character.                                                      *)
(***************************************************************************)
HexVal(c) ==
  IF c >= Ch("0") /\ c <= Ch("9") THEN c - Ch("0")
  ELSE IF c >= Ch("A") /\ c <= Ch("F") THEN (10 + c) - Ch("A")
  ELSE IF c >= Ch("a") /\ c <= Ch("f") THEN (10 + c) - Ch("a")
  ELSE -1

Hex4Value(h0, h1, h2, h3) ==
  IF h0 < 0 \/ h1 < 0 \/ h2 < 0 \/ h3 < 0
  THEN [ok |-> FALSE, h |-> 0]
  ELSE [ok |-> TRUE, h |-> (((((h0 * 16) + h1) * 16) + h2) * 16) + h3]

parse_hex4(t, cx, input) ==
  Hex4Value(HexVal(Mem(t, cx, input)), HexVal(Mem(t, cx, input + 1)),
            HexVal(Mem(t, cx, input + 2)), HexVal(Mem(t, cx, input + 3)))

\* "encode as utf8": the bytes stored at (*output_pointer)[0 .. utf8_length-1]
Utf8Bytes(codepoint) ==
  IF codepoint < 128 THEN <<codepoint % 128>>
  ELSE IF codepoint < 2048
       THEN <<192 + (codepoint \div 64), 128 + (codepoint % 64)>>
  ELSE IF codepoint < 65536
       THEN <<224 + (codepoint \div 4096), 128 + ((codepoint \div 64) % 64),
              128 + (codepoint % 64)>>
  ELSE <<240 + (codepoint \div 262144), 128 + ((codepoint \div 4096) % 64),
         128 + ((codepoint \div 64) % 64), 128 + (codepoint % 64)>>

UTF16_FAIL == [sequence_length |-> 0, utf8 |-> <<>>]

(***************************************************************************)
(* utf16_literal_to_utf8(input_pointer, input_end, output_pointer).        *)
(* Returns the sequence length (0 on failure) and the bytes it stores      *)
(* through output_pointer; the caller's output pointer advances by         *)
(* Len(utf8).  The hex digits are read at input_pointer + 2.               *)
(***************************************************************************)
\* the second half of a surrogate pair, once its four hex digits are read
Utf16Second(first_code, second) ==
  IF ~second.ok THEN UTF16_FAIL
  ELSE IF second.h < 56320 \/ second.h > 57343 THEN UTF16_FAIL
  ELSE [sequence_length |-> 12,
        utf8 |-> Utf8Bytes(65536 + (((first_code % 1024) * 1024)
                                     + (second.h % 1024)))]

\* the first code unit, once its four hex digits are read
Utf16First(t, cx, first_sequence, first) ==
  IF ~first.ok THEN UTF16_FAIL
  ELSE IF first.h >= 56320 /\ first.h <= 57343 THEN UTF16_FAIL
  ELSE IF first.h >= 55296 /\ first.h <= 56319
       THEN IF (cx.input_end - (first_sequence + 6)) < 6 THEN UTF16_FAIL
            ELSE IF Mem(t, cx, first_sequence + 6) # Ch("\\")
                    \/ Mem(t, cx, first_sequence + 7) # Ch("u") THEN UTF16_FAIL
            ELSE Utf16Second(first.h, parse_hex4(t, cx, (first_sequence + 6) + 2))
       ELSE [sequence_length |-> 6, utf8 |-> Utf8Bytes(first.h)]

utf16_literal_to_utf8(t, cx, input_pointer) ==
  IF (cx.input_end - input_pointer) < 6 THEN UTF16_FAIL
  ELSE Utf16First(t, cx, input_pointer, parse_hex4(t, cx, input_pointer + 2))

\* Bytes stored into the text buffer at positions at, at+1, ...
RECURSIVE Store(_, _, _)
Store(t, at, bs) ==
  IF bs = <<>> THEN t
  ELSE Store([t EXCEPT ![at + 1] = Head(bs)], at + 1, Tail(bs))

SimpleEscapes ==
  {Ch("\""), Ch("\\"), Ch("/"), Ch("b"), Ch("f"), Ch("n"), Ch("r"), Ch("t")}

(***************************************************************************)
(* parse_string, first loop (lines 497-528): measures the string.  The     *)
(* \u branch hands &ptr to utf16_literal_to_utf8 as the output pointer,    *)
(* so the UTF-8 bytes are stored into the text at ptr and ptr advances by  *)
(* their number.                                                           *)
(***************************************************************************)
RECURSIVE StringPass1(_, _, _, _)
\* the \u branch, once utf16_literal_to_utf8 returned u for the escape at p
StringPass1Unicode(t, cx, p, len, u) ==
  IF u.sequence_length = 0
  THEN [ok |-> FALSE, t |-> t, ptr |-> p, len |-> len]
  ELSE StringPass1(Store(t, p, u.utf8), cx, p + Len(u.utf8),
                   (len + u.sequence_length) - 6)

StringPass1(t, cx, ptr, len) ==
  IF ~(ptr < cx.input_end /\ Mem(t, cx, ptr) # Ch("\""))
  THEN [ok |-> TRUE, t |-> t, ptr |-> ptr, len |-> len]
  ELSE IF Mem(t, cx, ptr) # Ch("\\")
  THEN StringPass1(t, cx, ptr + 1, len)
  ELSE IF (ptr + 1) < cx.input_end /\ Mem(t, cx, ptr + 1) \in SimpleEscapes
  THEN StringPass1(t, cx, ptr + 2, len)
  ELSE IF (ptr + 1) < cx.input_end /\ Mem(t, cx, ptr + 1) = Ch("u")
  THEN StringPass1Unicode(t, cx, ptr + 1, len,
                          utf16_literal_to_utf8(t, cx, ptr + 1))
  ELSE [ok |-> FALSE, t |-> t, ptr |-> ptr + 1, len |-> len]

(***************************************************************************)
(* parse_string, second loop (lines 540-576): copies into out.             *)
(***************************************************************************)
RECURSIVE StringPass2(_, _, _, _)
\* the \u case, once utf16_literal_to_utf8 returned u for the escape at p
StringPass2Unicode(t, cx, p, out, u) ==
  StringPass2(t, cx, ((p + u.sequence_length) - 1) + 1, out \o u.utf8)

\* the escape whose character c stands at p
StringPass2Escape(t, cx, p, out, c) ==
  CASE c = Ch("b") -> StringPass2(t, cx, p + 1, Append(out, 8))
    [] c = Ch("f") -> StringPass2(t, cx, p + 1, Append(out, 12))
    [] c = Ch("n") -> StringPass2(t, cx, p + 1, Append(out, 10))
    [] c = Ch("r") -> StringPass2(t, cx, p + 1, Append(out, 13))
    [] c = Ch("t") -> StringPass2(t, cx, p + 1, Append(out, 9))
    [] c = Ch("u") -> StringPass2Unicode(t, cx, p, out,
                                         utf16_literal_to_utf8(t, cx, p))
    [] OTHER -> StringPass2(t, cx, p + 1, Append(out, c))

StringPass2(t, cx, ptr, out) ==
  IF ~(ptr < cx.input_end /\ Mem(t, cx, ptr) # Ch("\""))
  THEN [ptr |-> ptr, out |-> out]
  ELSE IF Mem(t, cx, ptr) # Ch("\\")
  THEN StringPass2(t, cx, ptr + 1, Append(out, Mem(t, cx, ptr)))
  ELSE StringPass2Escape(t, cx, ptr + 1, out, Mem(t, cx, ptr + 1))

(***************************************************************************)
(* parse_string.  Result: ok, pos (the returned pointer), t (the text      *)
(* buffer afterwards), ep (error position stored, or NullPos), node,       *)
(* alloc (bytes allocated for out) and written (bytes stored into out,     *)
(* terminator included).                                                   *)
(***************************************************************************)
\* the end of parse_string (lines 577-585), after the second loop returned p2
StringCopied(item, cx, str, p1, p2) ==
  [ok |-> TRUE,
   pos |-> IF Mem(p1.t, cx, p2.ptr) = Ch("\"") THEN p2.ptr + 1 ELSE p2.ptr,
   t |-> p1.t, ep |-> NullPos,
   node |-> [item EXCEPT !.valuestring = Some(CStr(p2.out)),
                         !.type = cJSON_String],
   alloc |-> (p1.len + ((p1.ptr - str) - 1)) + 1,
   written |-> Len(p2.out) + 1]

\* after the first loop returned p1: the allocation and the second loop.
\* out = cJSON_malloc(len + 1); if (!out) return NULL;
StringMeasured(item, cx, str, p1) ==
  IF ~p1.ok
  THEN [ok |-> FALSE, pos |-> NullPos, t |-> p1.t, ep |-> str, node |-> item,
        alloc |-> 0, written |-> 0]
  ELSE IF <<"cJSON_malloc", str>> \in cx.nomem
  THEN [ok |-> FALSE, pos |-> NullPos, t |-> p1.t, ep |-> NullPos, node |-> item,
        alloc |-> 0, written |-> 0]
  ELSE StringCopied(item, cx, str, p1, StringPass2(p1.t, cx, str + 1, <<>>))

parse_string(item, t, cx, str) ==
  IF Mem(t, cx, str) # Ch("\"")
  THEN [ok |-> FALSE, pos |-> NullPos, t |-> t, ep |-> str, node |-> item,
        alloc |-> 0, written |-> 0]
  ELSE StringMeasured(item, cx, str, StringPass1(t, cx, str + 1, 0))

(***************************************************************************)
(* skip: jump whitespace and cr/lf (every byte <= 32) up to input_end;     *)
(* a NULL pointer is returned as it is.                                    *)
(***************************************************************************)
RECURSIVE skip(_, _, _)
skip(t, cx, in) ==
  IF in # NullPos /\ in < cx.input_end /\ Mem(t, cx, in) <= 32
  THEN skip(t, cx, in + 1)
  ELSE in

\* !strncmp(value, lit, Len(lit))
StrnEq(t, cx, value, lit) ==
  \A i \in 1..Len(lit) : Mem(t, cx, (value + i) - 1) = lit[i]

(***************************************************************************)
(* Results of the parse functions: ok (a non-NULL pointer was returned),   *)
(* pos (that pointer), t (the text buffer afterwards), ep (the value       *)
(* stored into global_ep, NullPos when none was stored), node (the item    *)
(* as the function left it), over (a string was copied past the end of     *)
(* its allocation) and made (the number of allocations the call made).     *)
(* An allocation is named by the function called and the position in the   *)
(* text the parser stands at; the allocations in cx.nomem return NULL.     *)
(***************************************************************************)
PFail(t, ep, node, over, made) ==
  [ok |-> FALSE, pos |-> NullPos, t |-> t, ep |-> ep, node |-> node,
   over |-> over, made |-> made]

POk(t, pos, node, over, made) ==
  [ok |-> TRUE, pos |-> pos, t |-> t, ep |-> NullPos, node |-> node,
   over |-> over, made |-> made]

PString(r) ==
  [ok |-> r.ok, pos |-> r.pos, t |-> r.t, ep |-> r.ep, node |-> r.node,
   over |-> r.written > r.alloc, made |-> IF r.alloc > 0 THEN 1 ELSE 0]

WithChild(item, c) == [item EXCEPT !.child = Append(item.child, c)]

\* child->string = child->valuestring; child->valuestring = NULL;
KeyFromValue(c) == [c EXCEPT !.string = c.valuestring, !.valuestring = None]

RECURSIVE parse_value(_, _, _, _)
RECURSIVE parse_array(_, _, _, _)
RECURSIVE parse_object(_, _, _, _)
RECURSIVE ArrayLoop(_, _, _, _, _, _)
RECURSIVE ObjectLoop(_, _, _, _, _, _)

\* the number branch of parse_value, once parse_number returned n
NumberParsed(t, n) == POk(t, n.pos, n.node, FALSE, 0)

\* parse_value: dispatch on the text at value.
parse_value(item, t, cx, value) ==
  IF value = NullPos THEN PFail(t, NullPos, item, FALSE, 0)
  ELSE IF StrnEq(t, cx, value, Bytes(<<"n", "u", "l", "l">>))
  THEN POk(t, value + 4, [item EXCEPT !.type = cJSON_NULL], FALSE, 0)
  ELSE IF StrnEq(t, cx, value, Bytes(<<"f", "a", "l", "s", "e">>))
  THEN POk(t, value + 5, [item EXCEPT !.type = cJSON_False], FALSE, 0)
  ELSE IF StrnEq(t, cx, value, Bytes(<<"t", "r", "u", "e">>))
  THEN POk(t, value + 4, [item EXCEPT !.type = cJSON_True, !.valueint = 1],
           FALSE, 0)
  ELSE IF Mem(t, cx, value) = Ch("\"")
  THEN PString(parse_string(item, t, cx, value))
  ELSE IF Mem(t, cx, value) = Ch("-") \/ IsDigit(Mem(t, cx, value))
  THEN NumberParsed(t, parse_number(item, t, cx, value))
  ELSE IF Mem(t, cx, value) = Ch("[") THEN parse_array(item, t, cx, value)
  ELSE IF Mem(t, cx, value) = Ch("{") THEN parse_object(item, t, cx, value)
  ELSE PFail(t, value, item, FALSE, 0)

\* the end of parse_array with the error stored one character late
ArrayClosedLate(item, t, cx, value, over, made) ==
  IF Mem(t, cx, value) = Ch("]")
  THEN POk(t, value + 1, item, over, made)
  ELSE PFail(t, value + 1, item, over, made)

\* parse_array, after its loop: if (*value == ']') return value + 1;
\* global_ep = value; return NULL
ArrayClosed(item, t, cx, value, over, made) ==
  IF Mem(t, cx, value) = Ch("]")
  THEN POk(t, value + 1, item, over, made)
  ELSE PFail(t, value, item, over, made)

\* parse_array with the child linked only when its parse succeeded
ArrayElementLinkedLate(item, t, cx, over, made, r) ==
  IF ~r.ok
  THEN PFail(r.t, r.ep, item, over \/ r.over, made + r.made)
  ELSE ArrayLoop(WithChild(item, r.node), r.t, cx, skip(r.t, cx, r.pos),
                 over \/ r.over, made + r.made)

\* parse_array, once parse_value returned r for a new child: the child is
\* linked to item whether or not its parse succeeded
ArrayElement(item, t, cx, over, made, r) ==
  IF ~r.ok
  THEN PFail(r.t, r.ep, WithChild(item, r.node), over \/ r.over, made + r.made)
  ELSE ArrayLoop(WithChild(item, r.node), r.t, cx, skip(r.t, cx, r.pos),
                 over \/ r.over, made + r.made)

\* parse_array at an element: the new item (on memory fail return NULL with
\* nothing linked), its links and its value
ArrayChild(item, t, cx, value, over, made) ==
  IF <<"cJSON_New_Item", value>> \in cx.nomem
  THEN PFail(t, NullPos, item, over, made)
  ELSE ArrayElement(item, t, cx, over, made + 1,
                    parse_value(cJSON_New_Item, t, cx, skip(t, cx, value)))

\* parse_array behind a comma, without the test for the closing bracket:
\* every comma must be followed by an element
ArrayAfterCommaStrict(item, t, cx, value, over, made) ==
  ArrayChild(item, t, cx, value, over, made)

\* parse_array, behind a comma: value is the skipped position after it
ArrayAfterComma(item, t, cx, value, over, made) ==
  IF Mem(t, cx, value) = Ch("]")
  THEN ArrayClosed(item, t, cx, value, over, made)
  ELSE ArrayChild(item, t, cx, value, over, made)

\* The while (*value == ',') loop of parse_array and the check after it.
\* item carries the children linked so far; value is the skipped position.
ArrayLoop(item, t, cx, value, over, made) ==
  IF Mem(t, cx, value) = Ch(",")
  THEN ArrayAfterComma(item, t, cx, skip(t, cx, value + 1), over, made)
  ELSE ArrayClosed(item, t, cx, value, over, made)

\* parse_array behind '[': value is the skipped position after it
ArrayFirst(item, t, cx, value) ==
  IF Mem(t, cx, value) = Ch("]") THEN POk(t, value + 1, item, FALSE, 0)
  ELSE ArrayChild(item, t, cx, value, FALSE, 0)

parse_array(item, t, cx, value) ==
  IF Mem(t, cx, value) # Ch("[") THEN PFail(t, value, item, FALSE, 0)
  ELSE ArrayFirst([item EXCEPT !.type = cJSON_Array], t, cx,
                  skip(t, cx, value + 1))

\* a member, once parse_value returned r for its value
MemberValue(item, cx, over, made, r) ==
  IF ~r.ok
  THEN PFail(r.t, r.ep, WithChild(item, r.node), over \/ r.over, made + r.made)
  ELSE POk(r.t, skip(r.t, cx, r.pos), WithChild(item, r.node), over \/ r.over,
           made + r.made)

\* a member behind its key: colon is the skipped position after the key
MemberColon(item, t, cx, over, made, child, colon) ==
  IF Mem(t, cx, colon) # Ch(":")
  THEN PFail(t, colon, WithChild(item, child), over, made)
  ELSE MemberValue(item, cx, over, made,
                   parse_value(child, t, cx, skip(t, cx, colon + 1)))

\* a member, once parse_string returned k for its key
MemberKey(item, cx, over, made, k) ==
  IF ~k.ok
  THEN PFail(k.t, k.ep, WithChild(item, k.node), over \/ k.over, made + k.made)
  ELSE MemberColon(item, k.t, cx, over \/ k.over, made + k.made,
                   KeyFromValue(k.node), skip(k.t, cx, k.pos))

\* One member: the new item (on memory fail return NULL with nothing
\* linked), then key string, ':' and value, parsed into the child that is
\* already linked to item.  value is the position of the key.
ObjectMember(item, t, cx, value, over, made) ==
  IF <<"cJSON_New_Item", value>> \in cx.nomem
  THEN PFail(t, NullPos, item, over, made)
  ELSE MemberKey(item, cx, over, made + 1,
                 PString(parse_string(cJSON_New_Item, t, cx, skip(t, cx, value))))

\* parse_object, after its loop: if (*value == '}') return value + 1;
\* global_ep = value; return NULL
ObjectClosed(item, t, cx, value, over, made) ==
  IF Mem(t, cx, value) = Ch("}")
  THEN POk(t, value + 1, item, over, made)
  ELSE PFail(t, value, item, over, made)

\* parse_object, once a member was parsed with result m
ObjectNext(cx, m) ==
  IF ~m.ok THEN m ELSE ObjectLoop(m.node, m.t, cx, m.pos, m.over, m.made)

\* parse_object, behind a comma: value is the skipped position after it
ObjectAfterComma(item, t, cx, value, over, made) ==
  IF Mem(t, cx, value) = Ch("}")
  THEN ObjectClosed(item, t, cx, value, over, made)
  ELSE ObjectNext(cx, ObjectMember(item, t, cx, value, over, made))

\* The while (*value == ',') loop of parse_object and the check after it.
ObjectLoop(item, t, cx, value, over, made) ==
  IF Mem(t, cx, value) = Ch(",")
  THEN ObjectAfterComma(item, t, cx, skip(t, cx, value + 1), over, made)
  ELSE ObjectClosed(item, t, cx, value, over, made)

\* parse_object behind '{': value is the skipped position after it
ObjectFirst(item, t, cx, value) ==
  IF Mem(t, cx, value) = Ch("}") THEN POk(t, value + 1, item, FALSE, 0)
  ELSE ObjectNext(cx, ObjectMember(item, t, cx, value, FALSE, 0))

parse_object(item, t, cx, value) ==
  IF Mem(t, cx, value) # Ch("{") THEN PFail(t, value, item, FALSE, 0)
  ELSE ObjectFirst([item EXCEPT !.type = cJSON_Object], t, cx,
                   skip(t, cx, value + 1))

(***************************************************************************)
(* cJSON_Delete: the number of allocations handed to cJSON_free.  Nodes    *)
(* built by the parser carry neither cJSON_IsReference nor                 *)
(* cJSON_StringIsConst, so children, valuestring and key are all freed.    *)
(***************************************************************************)
RECURSIVE cJSON_Delete(_)
RECURSIVE DeleteChain(_)
DeleteChain(cs) ==
  IF cs = <<>> THEN 0 ELSE cJSON_Delete(Head(cs)) + DeleteChain(Tail(cs))

cJSON_Delete(c) ==
  DeleteChain(c.child) + Len(c.valuestring) + Len(c.string) + 1

\* A pointer into the caller's text number buf; buf = 0 is the NULL pointer.
NullPtr == [buf |-> 0, off |-> 0]
Ptr(b, o) == [buf |-> b, off |-> o]

(***************************************************************************)
(* cJSON_ParseWithOpts(value, return_parse_end, require_null_terminated)   *)
(* on the text t held in the caller's buffer number b.  supplied says      *)
(* whether return_parse_end is non-NULL.  Returns the tree (or None), the  *)
(* buffer afterwards, global_ep, the value stored through                  *)
(* return_parse_end (None when nothing was stored), the local parse_end,   *)
(* the number of allocations the call made and the number of them still    *)
(* live at return: those made less those handed to cJSON_free.             *)
(***************************************************************************)
\* the text as the parser sees it: end_of_buffer and the byte behind it,
\* with an allocator that never fails
Context(t, slack) == [input_end |-> Len(t), slack |-> slack, nomem |-> {}]

\* the allocation of the root item, made before the parser reads the text
RootItem == <<"cJSON_New_Item", -1>>

\* the same text with an allocator that returns NULL for the allocations in
\* nomem
NoMemory(t, slack, nomem) ==
  [input_end |-> Len(t), slack |-> slack, nomem |-> nomem]

\* the return of cJSON_ParseWithOpts without the check for trailing text
ParseReturnUnchecked(b, cx, supplied, require_null_terminated, r) ==
  IF ~r.ok
  THEN [c |-> None, t |-> r.t,
        global_ep |-> IF r.ep = NullPos THEN NullPtr ELSE Ptr(b, r.ep),
        return_parse_end |-> None, parse_end |-> NullPos,
        made |-> 1 + r.made,
        live |-> (1 + r.made) - cJSON_Delete(r.node), over |-> r.over]
  ELSE [c |-> Some(r.node), t |-> r.t,
        global_ep |-> IF r.ep = NullPos THEN NullPtr ELSE Ptr(b, r.ep),
        return_parse_end |->
          IF supplied THEN Some(IF r.ep = NullPos THEN NullPtr ELSE Ptr(b, r.ep))
          ELSE None,
        parse_end |-> r.pos, made |-> 1 + r.made, live |-> 1 + r.made,
        over |-> r.over]

\* cJSON_ParseWithOpts once parse_value returned r (lines 766-787)
ParseReturn(b, cx, supplied, require_null_terminated, r) ==
  LET ep == IF r.ep = NullPos THEN NullPtr ELSE Ptr(b, r.ep)
      end_of_parse == skip(r.t, cx, r.pos)
  IN IF ~r.ok
     THEN [c |-> None, t |-> r.t, global_ep |-> ep,
           return_parse_end |-> None, parse_end |-> NullPos,
           made |-> 1 + r.made,
           live |-> (1 + r.made) - cJSON_Delete(r.node), over |-> r.over]
     ELSE IF require_null_terminated /\ end_of_parse # cx.input_end
     THEN [c |-> None, t |-> r.t, global_ep |-> Ptr(b, end_of_parse),
           return_parse_end |-> None, parse_end |-> r.pos,
           made |-> 1 + r.made,
           live |-> (1 + r.made) - cJSON_Delete(r.node), over |-> r.over]
     ELSE [c |-> Some(r.node), t |-> r.t, global_ep |-> ep,
           return_parse_end |-> IF supplied THEN Some(ep) ELSE None,
           parse_end |-> r.pos, made |-> 1 + r.made, live |-> 1 + r.made,
           over |-> r.over]

\* cJSON_ParseWithOpts on the text as cx presents it: the root item (NULL on
\* memory fail: global_ep is reset and NULL returned), the value, the return
ParseIn(t, b, cx, supplied, require_null_terminated) ==
  IF RootItem \in cx.nomem
  THEN [c |-> None, t |-> t, global_ep |-> NullPtr, return_parse_end |-> None,
        parse_end |-> NullPos, made |-> 0, live |-> 0, over |-> FALSE]
  ELSE ParseReturn(b, cx, supplied, require_null_terminated,
                   parse_value(cJSON_New_Item, t, cx, skip(t, cx, 0)))

cJSON_ParseWithOpts(t, b, slack, supplied, require_null_terminated) ==
  ParseIn(t, b, Context(t, slack), supplied, require_null_terminated)

\* cJSON_Parse(value): cJSON_ParseWithOpts(value, 0, 0)
cJSON_Parse(t, b, slack) == cJSON_ParseWithOpts(t, b, slack, FALSE, FALSE)

(***************************************************************************)
(* Serializer, exact two-pass mode (p == NULL).                            *)
(***************************************************************************)
RECURSIVE Digits(_)
Digits(n) ==
  IF n < 10 THEN <<Ch("0") + n>>
  ELSE Append(Digits(n \div 10), Ch("0") + (n % 10))

Repeat(c, n) == [i \in 1..n |-> c]

\* the "f" style of %g, trailing zeros removed; ds are the digits of the
\* mantissa.
FormatDigits(d, ds) ==
  (IF d.neg THEN <<Ch("-")>> ELSE <<>>)
  \o (IF d.exp >= 0 THEN ds \o Repeat(Ch("0"), d.exp)
      ELSE IF (0 - d.exp) < Len(ds)
      THEN SubSeq(ds, 1, Len(ds) + d.exp) \o <<Ch(".")>>
             \o SubSeq(ds, (Len(ds) + d.exp) + 1, Len(ds))
      ELSE <<Ch("0"), Ch(".")>> \o Repeat(Ch("0"), (0 - d.exp) - Len(ds)) \o ds)

\* the exponent of the "e" style: a sign and at least two digits
FormatExponent(x) ==
  (IF x < 0 THEN <<Ch("-")>> ELSE <<Ch("+")>>)
  \o (IF x > -10 /\ x < 10 THEN <<Ch("0")>> ELSE <<>>)
  \o Digits(IF x < 0 THEN 0 - x ELSE x)

\* the "e" style of %g, trailing zeros removed: d[.ddd]e+xx
FormatScientific(d, ds, x) ==
  (IF d.neg THEN <<Ch("-")>> ELSE <<>>)
  \o <<Head(ds)>>
  \o (IF Len(ds) > 1 THEN <<Ch(".")>> \o Tail(ds) ELSE <<>>)
  \o <<Ch("e")>> \o FormatExponent(x)

\* %.15g takes the "e" style when the decimal exponent x of the value is
\* below -4 or not below the precision
FormatStyle(d, ds, x) ==
  IF d.mant # 0 /\ (x < -4 \/ x >= 15) THEN FormatScientific(d, ds, x)
  ELSE FormatDigits(d, ds)

\* sprintf("%.15g", d) for a value of at most 15 significant digits.  sscanf
\* reads the text of such a value back as the same double, so the test of
\* line 263 never asks for 17 digits.
Format15g(d) ==
  FormatStyle(d, Digits(d.mant), (Len(Digits(d.mant)) - 1) + d.exp)

\* An infinity or a NaN has the exponent that no finite double has; the
\* mantissa of an infinity is 0.
NonFinite(d) == d.exp >= 1024
Infinity(neg) == [neg |-> neg, mant |-> 0, exp |-> 1024]
NaN == [neg |-> FALSE, mant |-> 1, exp |-> 1024]

\* print_number, lines 253-301: number_buffer[0 .. length - 1], the bytes
\* that are copied to the output.  For a NaN or an infinity sprintf writes
\* "null" to str and sets length to 4, and number_buffer keeps its zeros.
NumberBuffer(d) == IF NonFinite(d) THEN Repeat(0, 4) ELSE Format15g(d)

\* print_number without a printbuffer: the string in str
print_number(item) == CStr(NumberBuffer(item.valuedouble))

\* An uninitialised byte of an allocation.
Junk == 256

\* Bytes bs stored into buffer b at positions at, at+1, ... (0-based).
RECURSIVE Poke(_, _, _)
Poke(b, at, bs) ==
  IF bs = <<>> THEN b
  ELSE IF at < Len(b)
  THEN Poke([b EXCEPT ![at + 1] = Head(bs)], at + 1, Tail(bs))
  ELSE Poke(b \o Repeat(Junk, at - Len(b)) \o <<Head(bs)>>, at + 1, Tail(bs))

HexDigit(v) == IF v < 10 THEN Ch("0") + v ELSE Ch("a") + (v - 10)

RECURSIVE HexDigits(_)
HexDigits(v) ==
  IF v < 16 THEN <<HexDigit(v)>>
  ELSE Append(HexDigits(v \div 16), HexDigit(v % 16))

ZeroPad4(h) == Repeat(Ch("0"), 4 - Len(h)) \o h

\* sprintf(.., "%04x", v) with v an int: a negative v prints as unsigned.
Format04x(v) ==
  IF v < 0 THEN Repeat(Ch("f"), 8) ELSE ZeroPad4(HexDigits(v))

NeedsEscape(c) == c = Ch("\"") \/ c = Ch("\\") \/ c < 32

\* first pass of print_string_ptr: 5 more bytes for every flagged character
RECURSIVE EscapeCount(_)
EscapeCount(str) ==
  IF str = <<>> THEN 0
  ELSE (IF NeedsEscape(Head(str)) THEN 5 ELSE 0) + EscapeCount(Tail(str))

(***************************************************************************)
(* Second pass of print_string_ptr (lines 670-713).  str is the C string,  *)
(* i the 0-based read position (ptr - str), b the output bytes and w the   *)
(* write position (ptr2 - out).  The default case formats *ptr - 1 after   *)
(* ptr was advanced by the switch.                                         *)
(***************************************************************************)
StrAt(str, i) == IF i < Len(str) THEN str[i + 1] ELSE 0

RECURSIVE EscapePass2(_, _, _, _)
\* *ptr2++ = '\\'; *ptr2++ = x
EscapeTwo(str, i, b, w, x) ==
  EscapePass2(str, i + 1, Poke(b, w, <<Ch("\\"), x>>), w + 2)

\* the switch of the second pass, for the flagged character c
EscapeSwitch(str, i, b, w, c) ==
  CASE c = Ch("\\") -> EscapeTwo(str, i, b, w, Ch("\\"))
    [] c = Ch("\"") -> EscapeTwo(str, i, b, w, Ch("\""))
    [] c = 8  -> EscapeTwo(str, i, b, w, Ch("b"))
    [] c = 12 -> EscapeTwo(str, i, b, w, Ch("f"))
    [] c = 10 -> EscapeTwo(str, i, b, w, Ch("n"))
    [] c = 13 -> EscapeTwo(str, i, b, w, Ch("r"))
    [] c = 9  -> EscapeTwo(str, i, b, w, Ch("t"))
    [] OTHER ->
         EscapePass2(str, i + 1,
           Poke(b, w, <<Ch("\\"), Ch("u")>>
                        \o Format04x(StrAt(str, i + 1) - 1) \o <<0>>),
           w + 6)

\* one character c of the second pass
EscapeChar(str, i, b, w, c) ==
  IF c = 0 THEN [b |-> Poke(b, w, <<Ch("\""), 0>>), w |-> w + 2]
  ELSE IF c > 31 /\ c # Ch("\"") /\ c # Ch("\\")
  THEN EscapePass2(str, i + 1, Poke(b, w, <<c>>), w + 1)
  ELSE EscapeSwitch(str, i, b, w, c)

EscapePass2(str, i, b, w) == EscapeChar(str, i, b, w, StrAt(str, i))

(***************************************************************************)
(* print_string_ptr(str, p).  str is None (NULL) or Some(C string).        *)
(* Result: len (the size requested from the allocator), b (the bytes       *)
(* stored, from the start of the string) and w (bytes the write cursor     *)
(* covered, terminator included).                                          *)
(***************************************************************************)
PrintedString(str, r) ==
  [len |-> (EscapeCount(str) + Len(str)) + 3, b |-> r.b, w |-> r.w]

print_string_ptr(str) ==
  IF str = None
  THEN [len |-> 3, b |-> <<Ch("\""), Ch("\""), 0>>, w |-> 3]
  ELSE PrintedString(str[1], EscapePass2(str[1], 0, <<Ch("\"")>>, 1))

RECURSIVE print_value_exact(_, _, _)
RECURSIVE print_array_exact(_, _, _)
RECURSIVE print_object_exact(_, _, _)
RECURSIVE ArrayEntries(_, _, _)
RECURSIVE ObjectEntries(_, _, _)

\* print_value with p == NULL: the malloc'ed string, or None for NULL.
print_value_exact(item, depth, fmt) ==
  CASE item.type % 256 = cJSON_NULL   -> Some(Bytes(<<"n", "u", "l", "l">>))
    [] item.type % 256 = cJSON_False  -> Some(Bytes(<<"f", "a", "l", "s", "e">>))
    [] item.type % 256 = cJSON_True   -> Some(Bytes(<<"t", "r", "u", "e">>))
    [] item.type % 256 = cJSON_Number -> Some(print_number(item))
    [] item.type % 256 = cJSON_String ->
         Some(CStr(print_string_ptr(item.valuestring).b))
    [] item.type % 256 = cJSON_Array  -> print_array_exact(item, depth, fmt)
    [] item.type % 256 = cJSON_Object -> print_object_exact(item, depth, fmt)
    [] OTHER -> None

\* one more entry ret before the entries rest; None as soon as one fails
ArrayEntry(ret, rest) ==
  IF ret = None \/ rest = None THEN None ELSE Some(<<ret[1]>> \o rest[1])

\* entries[]: the children rendered one by one
ArrayEntries(cs, depth, fmt) ==
  IF cs = <<>> THEN Some(<<>>)
  ELSE ArrayEntry(print_value_exact(Head(cs), depth + 1, fmt),
                  ArrayEntries(Tail(cs), depth, fmt))

RECURSIVE JoinArray(_, _)
JoinArray(es, fmt) ==
  IF Len(es) = 1 THEN es[1]
  ELSE es[1] \o <<Ch(",")>> \o (IF fmt THEN <<Ch(" ")>> ELSE <<>>)
             \o JoinArray(Tail(es), fmt)

\* the output composed from the entries es
ArrayJoined(es, fmt) ==
  IF es = None THEN None
  ELSE Some(<<Ch("[")>> \o JoinArray(es[1], fmt) \o <<Ch("]")>>)

print_array_exact(item, depth, fmt) ==
  IF item.child = <<>> THEN Some(Bytes(<<"[", "]">>))
  ELSE ArrayJoined(ArrayEntries(item.child, depth, fmt), fmt)

\* one more name str and entry ret before the entries rest
ObjectEntry(str, ret, rest) ==
  IF ret = None \/ rest = None THEN None
  ELSE Some(<<[name |-> CStr(str.b), entry |-> ret[1]]>> \o rest[1])

\* names[] and entries[] of print_object; depth is already incremented
ObjectEntries(cs, depth, fmt) ==
  IF cs = <<>> THEN Some(<<>>)
  ELSE ObjectEntry(print_string_ptr(Head(cs).string),
                   print_value_exact(Head(cs), depth, fmt),
                   ObjectEntries(Tail(cs), depth, fmt))

RECURSIVE JoinObject(_, _, _)
JoinObject(es, depth, fmt) ==
  IF es = <<>> THEN <<>>
  ELSE (IF fmt THEN Repeat(9, depth) ELSE <<>>)
       \o es[1].name \o <<Ch(":")>> \o (IF fmt THEN <<9>> ELSE <<>>)
       \o es[1].entry
       \o (IF Len(es) # 1 THEN <<Ch(",")>> ELSE <<>>)
       \o (IF fmt THEN <<10>> ELSE <<>>)
       \o JoinObject(Tail(es), depth, fmt)

\* the output composed from the names and entries es; depth is incremented
ObjectJoined(es, depth, fmt) ==
  IF es = None THEN None
  ELSE Some(<<Ch("{")>> \o (IF fmt THEN <<10>> ELSE <<>>)
            \o JoinObject(es[1], depth, fmt)
            \o (IF fmt THEN Repeat(9, depth - 1) ELSE <<>>)
            \o <<Ch("}")>>)

print_object_exact(item, depth, fmt) ==
  IF item.child = <<>>
  THEN Some(<<Ch("{")>> \o (IF fmt THEN <<10>> \o Repeat(9, depth) ELSE <<>>)
                       \o <<Ch("}")>>)
  ELSE ObjectJoined(ObjectEntries(item.child, depth + 1, fmt), depth + 1, fmt)

\* cJSON_Print and cJSON_PrintUnformatted
cJSON_Print(item) == print_value_exact(item, 0, TRUE)
cJSON_PrintUnformatted(item) == print_value_exact(item, 0, FALSE)

(***************************************************************************)
(* Serializer, buffered mode.  A printbuffer is [buffer, length, offset];  *)
(* buffer holds length bytes.  A pointer into the buffer is its 0-based    *)
(* index; NullPos is NULL.                                                 *)
(***************************************************************************)
RECURSIVE Pow2AtLeast(_, _)
Pow2AtLeast(x, k) == IF k >= x THEN k ELSE Pow2AtLeast(x, 2 * k)

\* pow2gt on the small sizes of this model: the least power of two >= x
pow2gt(x) == Pow2AtLeast(x, 1)

\* ensure(p, needed): the cursor buffer + offset after growing, or NULL
ensure(p, needed0) ==
  LET needed  == needed0 + (p.offset + 1)
      newsize == pow2gt(needed)
      grown   == [buffer |-> SubSeq(p.buffer, 1, p.offset)
                               \o Repeat(Junk, newsize - p.offset),
                  length |-> newsize, offset |-> p.offset]
  IN IF p.length > 0 /\ p.offset >= p.length THEN [p |-> p, ptr |-> NullPos]
     ELSE IF needed <= p.length THEN [p |-> p, ptr |-> p.offset]
     ELSE [p |-> grown, ptr |-> p.offset]

\* bytes bs stored at index at of p->buffer
PutP(p, at, bs) == [p EXCEPT !.buffer = Poke(p.buffer, at, bs)]

\* bytes bs stored at the cursor e that ensure returned; the offset is
\* left alone
StoreText(e, bs) ==
  IF e.ptr = NullPos THEN [p |-> e.p, out |-> NullPos]
  ELSE [p |-> PutP(e.p, e.ptr, bs), out |-> e.ptr]

\* strcpy(out, lit) after out = ensure(p, n)
PutLiteral(p, n, lit) == StoreText(ensure(p, n), Append(lit, 0))

\* bytes bs stored at the cursor e and the offset advanced by n
Advance(e, bs, n) == [PutP(e.p, e.ptr, bs) EXCEPT !.offset = e.p.offset + n]

\* print_number with a printbuffer: the digits n go to buffer[offset ..]
NumberStored(e, n) ==
  IF e.ptr = NullPos THEN [p |-> e.p, out |-> NullPos]
  ELSE [p |-> Advance(e, Append(n, 0), Len(n)), out |-> e.ptr]

print_number_buffered(item, p) ==
  NumberStored(ensure(p, 64), NumberBuffer(item.valuedouble))

\* print_string_ptr with a printbuffer: the string r is stored at cursor e
StringStored(str, r, e) ==
  IF e.ptr = NullPos THEN [p |-> e.p, out |-> NullPos]
  ELSE IF str = None THEN [p |-> PutP(e.p, e.ptr, r.b), out |-> e.ptr]
  ELSE [p |-> [PutP(e.p, e.ptr, r.b) EXCEPT !.offset = (e.ptr + r.w) - 1],
        out |-> 0]

StringSized(str, p, r) == StringStored(str, r, ensure(p, r.len))

\* print_string_ptr with a printbuffer: returns p->buffer
print_string_ptr_buffered(str, p) == StringSized(str, p, print_string_ptr(str))

RECURSIVE print_value_buffered(_, _, _, _)
RECURSIVE print_array_buffered(_, _, _, _)
RECURSIVE print_object_buffered(_, _, _, _)
RECURSIVE ArrayChildren(_, _, _, _)
RECURSIVE ObjectChildren(_, _, _, _)

print_value_buffered(item, depth, fmt, p) ==
  CASE item.type % 256 = cJSON_NULL   -> PutLiteral(p, 5, Bytes(<<"n", "u", "l", "l">>))
    [] item.type % 256 = cJSON_False  ->
         PutLiteral(p, 6, Bytes(<<"f", "a", "l", "s", "e">>))
    [] item.type % 256 = cJSON_True   -> PutLiteral(p, 5, Bytes(<<"t", "r", "u", "e">>))
    [] item.type % 256 = cJSON_Number -> print_number_buffered(item, p)
    [] item.type % 256 = cJSON_String ->
         print_string_ptr_buffered(item.valuestring, p)
    [] item.type % 256 = cJSON_Array  -> print_array_buffered(item, depth, fmt, p)
    [] item.type % 256 = cJSON_Object -> print_object_buffered(item, depth, fmt, p)
    [] OTHER -> [p |-> p, out |-> NullPos]

\* p->offset = update(p), where update computes buffer - buffer
Rewound(p) == [p EXCEPT !.offset = 0]

\* the separator of print_array, stored at the cursor e
ArraySeparator(cs, depth, fmt, e) ==
  IF e.ptr = NullPos THEN [ok |-> FALSE, p |-> e.p]
  ELSE ArrayChildren(Tail(cs), depth, fmt,
         Advance(e, <<Ch(",")>> \o (IF fmt THEN <<Ch(" ")>> ELSE <<>>) \o <<0>>,
                 IF fmt THEN 2 ELSE 1))

\* after print_value returned v for the first child of cs
ArrayChildPrinted(cs, depth, fmt, v) ==
  IF Len(cs) = 1 THEN [ok |-> TRUE, p |-> Rewound(v.p)]
  ELSE ArraySeparator(cs, depth, fmt,
                      ensure(Rewound(v.p), (IF fmt THEN 2 ELSE 1) + 1))

(***************************************************************************)
(* The while (child && !fail) loop of print_array, lines 1084-1105: after  *)
(* each child the offset is set to buffer - buffer.  ok = FALSE is the     *)
(* return NULL at line 1094.                                               *)
(***************************************************************************)
ArrayChildren(cs, depth, fmt, p) ==
  IF cs = <<>> THEN [ok |-> TRUE, p |-> p]
  ELSE ArrayChildPrinted(cs, depth, fmt,
                         print_value_buffered(Head(cs), depth + 1, fmt, p))

\* the closing bracket of print_array, stored at the cursor e
ArrayBracket(e) ==
  IF e.ptr = NullPos THEN [p |-> e.p, out |-> NullPos]
  ELSE [p |-> PutP(e.p, e.ptr, <<Ch("]"), 0>>), out |-> 0]

\* after the loop over the children returned cs
ArrayPrinted(cs) ==
  IF ~cs.ok THEN [p |-> cs.p, out |-> NullPos]
  ELSE ArrayBracket(ensure(cs.p, 2))

\* the opening bracket of print_array, stored at the cursor e
ArrayOpened(item, depth, fmt, e) ==
  IF e.ptr = NullPos THEN [p |-> e.p, out |-> NullPos]
  ELSE ArrayPrinted(ArrayChildren(item.child, depth, fmt,
                                  Advance(e, <<Ch("[")>>, 1)))

print_array_buffered(item, depth, fmt, p) ==
  IF item.child = <<>> THEN PutLiteral(p, 3, Bytes(<<"[", "]">>))
  ELSE ArrayOpened(item, depth, fmt, ensure(p, 1))

\* bytes written after a member: a comma unless it is the last, a newline
\* when formatted
MemberTail(cs, fmt) ==
  (IF fmt THEN 1 ELSE 0) + (IF Len(cs) > 1 THEN 1 ELSE 0)

\* the separator of print_object, stored at the cursor e
ObjectSeparator(cs, depth, fmt, e) ==
  IF e.ptr = NullPos THEN [ok |-> FALSE, p |-> e.p]
  ELSE ObjectChildren(Tail(cs), depth, fmt,
         Advance(e, (IF Len(cs) > 1 THEN <<Ch(",")>> ELSE <<>>)
                      \o (IF fmt THEN <<10>> ELSE <<>>) \o <<0>>,
                 MemberTail(cs, fmt)))

\* after print_value returned v for the value of the first member of cs
ObjectValuePrinted(cs, depth, fmt, v) ==
  ObjectSeparator(cs, depth, fmt, ensure(Rewound(v.p), MemberTail(cs, fmt) + 1))

\* the colon of print_object, stored at the cursor e
ObjectColon(cs, depth, fmt, e) ==
  IF e.ptr = NullPos THEN [ok |-> FALSE, p |-> e.p]
  ELSE ObjectValuePrinted(cs, depth, fmt,
         print_value_buffered(Head(cs), depth, fmt,
           Advance(e, <<Ch(":")>> \o (IF fmt THEN <<9>> ELSE <<>>),
                   IF fmt THEN 2 ELSE 1)))

\* after print_string_ptr returned k for the key of the first member of cs
ObjectKeyPrinted(cs, depth, fmt, k) ==
  ObjectColon(cs, depth, fmt, ensure(Rewound(k.p), IF fmt THEN 2 ELSE 1))

\* the key of the first member of cs
ObjectKey(cs, depth, fmt, p) ==
  ObjectKeyPrinted(cs, depth, fmt,
                   print_string_ptr_buffered(Head(cs).string, p))

\* the indentation of a member, stored at the cursor e
ObjectIndent(cs, depth, fmt, e) ==
  IF e.ptr = NullPos THEN [ok |-> FALSE, p |-> e.p]
  ELSE ObjectKey(cs, depth, fmt, Advance(e, Repeat(9, depth), depth))

(***************************************************************************)
(* The while (child) loop of print_object, lines 1342-1394; depth is       *)
(* already incremented.  The offset is set to buffer - buffer after the    *)
(* key and after the value.                                                *)
(***************************************************************************)
ObjectChildren(cs, depth, fmt, p) ==
  IF cs = <<>> THEN [ok |-> TRUE, p |-> p]
  ELSE IF fmt THEN ObjectIndent(cs, depth, fmt, ensure(p, depth))
  ELSE ObjectKey(cs, depth, fmt, p)

\* the closing brace of print_object, stored at the cursor e
ObjectBrace(depth, fmt, e) ==
  IF e.ptr = NullPos THEN [p |-> e.p, out |-> NullPos]
  ELSE [p |-> PutP(e.p, e.ptr,
                   (IF fmt THEN Repeat(9, depth - 1) ELSE <<>>) \o <<Ch("}"), 0>>),
        out |-> 0]

\* after the loop over the members returned cs
ObjectPrinted(depth, fmt, cs) ==
  IF ~cs.ok THEN [p |-> cs.p, out |-> NullPos]
  ELSE ObjectBrace(depth, fmt, ensure(cs.p, IF fmt THEN depth + 1 ELSE 2))

\* the opening brace of print_object, stored at the cursor e; depth is
\* incremented
ObjectOpened(item, depth, fmt, e) ==
  IF e.ptr = NullPos THEN [p |-> e.p, out |-> NullPos]
  ELSE ObjectPrinted(depth, fmt,
         ObjectChildren(item.child, depth, fmt,
           Advance(e, <<Ch("{")>> \o (IF fmt THEN <<10>> ELSE <<>>) \o <<0>>,
                   IF fmt THEN 2 ELSE 1)))

print_object_buffered(item, depth, fmt, p) ==
  IF item.child = <<>>
  THEN StoreText(ensure(p, IF fmt THEN depth + 4 ELSE 3),
                 <<Ch("{")>> \o (IF fmt THEN <<10>> \o Repeat(9, depth) ELSE <<>>)
                   \o <<Ch("}"), 0>>)
  ELSE ObjectOpened(item, depth + 1, fmt, ensure(p, (IF fmt THEN 2 ELSE 1) + 1))

\* The C string that starts at index from of buffer b.
CStrAt(b, from) == CStr(SubSeq(b, from + 1, Len(b)))

\* what cJSON_PrintBuffered returns after print_value returned r
BufferedResult(r) ==
  IF r.out = NullPos THEN None ELSE Some(CStrAt(r.p.buffer, r.out))

\* cJSON_PrintBuffered(item, prebuffer, fmt): the returned string, or None
cJSON_PrintBuffered(item, prebuffer, fmt) ==
  BufferedResult(print_value_buffered(item, 0, fmt,
    [buffer |-> Repeat(Junk, prebuffer), length |-> prebuffer, offset |-> 0]))

(***************************************************************************)
(* The tree in memory.  mem.node holds every cJSON struct allocated so     *)
(* far; a pointer to a struct is its index, 0 is NULL.  mem.text holds the *)
(* strings allocated by cJSON_strdup.  A char pointer is the index of an   *)
(* allocated string, 0 for NULL, or -k for the k-th string owned by the    *)
(* caller (CallerStrings).  node_frees and text_frees count the calls of   *)
(* cJSON_free per allocation; const_freed holds the caller's strings that  *)
(* were handed to cJSON_free.                                              *)
(***************************************************************************)
cJSON_IsReference == 256
cJSON_StringIsConst == 512

HasFlag(type, flag) == (type \div flag) % 2 = 1
WithFlag(type, flag) == IF HasFlag(type, flag) THEN type ELSE type + flag
WithoutFlag(type, flag) == IF HasFlag(type, flag) THEN type - flag ELSE type

CallerStrings ==
  << Bytes(<<"N", "a", "m", "e">>), Bytes(<<"n", "a", "m", "e">>),
     Bytes(<<"b">>) >>

\* the bytes of the C string at char pointer s (s # 0)
Str(m, s) == IF s > 0 THEN m.text[s] ELSE CallerStrings[0 - s]

EmptyMemory ==
  [node |-> <<>>, text |-> <<>>, node_frees |-> <<>>, text_frees |-> <<>>,
   const_freed |-> {}]

\* the struct after memset(node, '\0', sizeof(cJSON))
ZeroedItem ==
  [next |-> 0, prev |-> 0, child |-> 0, type |-> 0, valuestring |-> 0,
   valueint |-> 0, valuedouble |-> [neg |-> FALSE, mant |-> 0, exp |-> 0],
   string |-> 0]

\* cJSON_New_Item on memory m; the new pointer is NewPtr(m)
NewPtr(m) == Len(m.node) + 1

NewItem(m) ==
  [m EXCEPT !.node = Append(@, ZeroedItem), !.node_frees = Append(@, 0)]

\* cJSON_strdup of the bytes str; the copy is at char pointer NewText(m)
NewText(m) == Len(m.text) + 1

cJSON_strdup(m, str) ==
  [m EXCEPT !.text = Append(@, str), !.text_frees = Append(@, 0)]

\* cJSON_free of a char pointer and of a struct
FreeText(m, s) ==
  IF s < 0 THEN [m EXCEPT !.const_freed = @ \cup {s}]
  ELSE [m EXCEPT !.text_frees[s] = @ + 1]

FreeItem(m, c) == [m EXCEPT !.node_frees[c] = @ + 1]

\* cJSON_Delete(c) on memory m
DeleteKey(m, n) ==
  IF ~HasFlag(n.type, cJSON_StringIsConst) /\ n.string # 0
  THEN FreeText(m, n.string) ELSE m

DeleteValue(m, n) ==
  IF ~HasFlag(n.type, cJSON_IsReference) /\ n.valuestring # 0
  THEN FreeText(m, n.valuestring) ELSE m

RECURSIVE Delete(_, _)
DeleteChild(m, n) ==
  IF ~HasFlag(n.type, cJSON_IsReference) /\ n.child # 0
  THEN Delete(m, n.child) ELSE m

\* a delete that does not look at the reference flag
FreeValue(m, n) == IF n.valuestring # 0 THEN FreeText(m, n.valuestring) ELSE m

RECURSIVE DeleteThrough(_, _)
DeleteThrough(m, c) ==
  IF c = 0 THEN m
  ELSE DeleteThrough(FreeItem(DeleteKey(FreeValue(
                       DeleteThrough(m, m.node[c].child), m.node[c]),
                       m.node[c]), c),
                     m.node[c].next)

Delete(m, c) ==
  IF c = 0 THEN m
  ELSE Delete(FreeItem(DeleteKey(DeleteValue(DeleteChild(m, m.node[c]),
                                             m.node[c]), m.node[c]), c),
              m.node[c].next)

\* cJSON_CreateNull, cJSON_CreateArray, ...: a zeroed item with its type
CreateTyped(m, type) == [NewItem(m) EXCEPT !.node[NewPtr(m)].type = type]

cJSON_CreateArray(m) == CreateTyped(m, cJSON_Array)
cJSON_CreateObject(m) == CreateTyped(m, cJSON_Object)

\* cJSON_CreateString(string): the item, then the copy of the string
cJSON_CreateString(m, str) ==
  [cJSON_strdup(NewItem(m), str) EXCEPT
     !.node[NewPtr(m)].type = cJSON_String,
     !.node[NewPtr(m)].valuestring = NewText(m)]

\* suffix_object and cJSON_AddItemToArray
suffix_object(m, prev, item) ==
  [m EXCEPT !.node[prev].next = item, !.node[item].prev = prev]

RECURSIVE LastSibling(_, _)
LastSibling(m, c) ==
  IF m.node[c].next # 0 THEN LastSibling(m, m.node[c].next) ELSE c

\* an append that sets next and leaves prev of the new item alone
AddItemOneWay(m, array, item) ==
  IF item = 0 THEN m
  ELSE IF m.node[array].child = 0 THEN [m EXCEPT !.node[array].child = item]
  ELSE [m EXCEPT !.node[LastSibling(m, m.node[array].child)].next = item]

cJSON_AddItemToArray(m, array, item) ==
  IF item = 0 THEN m
  ELSE IF m.node[array].child = 0 THEN [m EXCEPT !.node[array].child = item]
  ELSE suffix_object(m, LastSibling(m, m.node[array].child), item)

\* cJSON_AddItemToObject(object, string, item): lines 1633-1638
KeyReleased(m, item) ==
  IF m.node[item].string # 0 THEN FreeText(m, m.node[item].string) ELSE m

KeyCopied(m, item, str) ==
  [cJSON_strdup(m, str) EXCEPT !.node[item].string = NewText(m)]

cJSON_AddItemToObject(m, object, string, item) ==
  IF item = 0 THEN m
  ELSE cJSON_AddItemToArray(
         KeyCopied(KeyReleased(m, item), item, Str(m, string)), object, item)

\* cJSON_AddItemToObjectCS(object, string, item): lines 1647-1653
KeyReleasedCS(m, item) ==
  IF ~HasFlag(m.node[item].type, cJSON_StringIsConst) /\ m.node[item].string # 0
  THEN FreeText(m, m.node[item].string) ELSE m

KeyBorrowed(m, item, string) ==
  [m EXCEPT !.node[item].string = string,
            !.node[item].type = WithFlag(@, cJSON_StringIsConst)]

cJSON_AddItemToObjectCS(m, object, string, item) ==
  IF item = 0 THEN m
  ELSE cJSON_AddItemToArray(
         KeyBorrowed(KeyReleasedCS(m, item), item, string), object, item)

\* a tolower that folds nothing
tolowerNothing(c) == c

\* tolower in the C locale
tolower(c) == IF c >= Ch("A") /\ c <= Ch("Z") THEN c + 32 ELSE c

\* the for loop of cJSON_strcasecmp, lines 2365-2373, at index i
RECURSIVE CaseCmpFrom(_, _, _)
CaseCmpFrom(s1, s2, i) ==
  IF tolower(StrAt(s1, i)) = tolower(StrAt(s2, i))
  THEN IF StrAt(s1, i) = 0 THEN 0 ELSE CaseCmpFrom(s1, s2, i + 1)
  ELSE tolower(StrAt(s1, i)) - tolower(StrAt(s2, i))

\* cJSON_strcasecmp(s1, s2) on char pointers
cJSON_strcasecmp(m, s1, s2) ==
  IF s1 = 0 THEN (IF s2 = 0 THEN 0 ELSE 1)
  ELSE IF s2 = 0 THEN -1
  ELSE CaseCmpFrom(Str(m, s1), Str(m, s2), 0)

\* strcmp(s1, s2) on char pointers to strings (neither is NULL): zero iff
\* the strings are equal, else the difference of the first differing bytes
RECURSIVE StrCmpFrom(_, _, _)
StrCmpFrom(s1, s2, i) ==
  IF StrAt(s1, i) = StrAt(s2, i)
  THEN IF StrAt(s1, i) = 0 THEN 0 ELSE StrCmpFrom(s1, s2, i + 1)
  ELSE StrAt(s1, i) - StrAt(s2, i)

strcmp(m, s1, s2) == StrCmpFrom(Str(m, s1), Str(m, s2), 0)

\* the loop of cJSON_GetObjectItem, from child c
RECURSIVE FindCase(_, _, _)
FindCase(m, c, string) ==
  IF c # 0 /\ cJSON_strcasecmp(m, m.node[c].string, string) # 0
  THEN FindCase(m, m.node[c].next, string) ELSE c

cJSON_GetObjectItem(m, object, string) ==
  FindCase(m, IF object # 0 THEN m.node[object].child ELSE 0, string)

\* the loop of cJSON_GetObjectItemCaseSensitive, from child c
RECURSIVE FindExact(_, _, _)
FindExact(m, c, string) ==
  IF c # 0 /\ strcmp(m, m.node[c].string, string) # 0
  THEN FindExact(m, m.node[c].next, string) ELSE c

cJSON_GetObjectItemCaseSensitive(m, object, string) ==
  FindExact(m, IF object # 0 THEN m.node[object].child ELSE 0, string)

\* the loop shared by the functions that walk to an index: c after item
\* steps, or NULL when the chain ends first
RECURSIVE Walk(_, _, _)
Walk(m, c, item) ==
  IF c # 0 /\ item > 0 THEN Walk(m, m.node[c].next, item - 1) ELSE c

cJSON_GetArrayItem(m, array, item) ==
  Walk(m, IF array # 0 THEN m.node[array].child ELSE 0, item)

RECURSIVE CountFrom(_, _)
CountFrom(m, c) == IF c # 0 THEN 1 + CountFrom(m, m.node[c].next) ELSE 0

cJSON_GetArraySize(m, array) == CountFrom(m, m.node[array].child)

\* create_reference(item): memcpy of the struct, then lines 1599-1601
create_reference(m, item) ==
  [NewItem(m) EXCEPT
     !.node[NewPtr(m)] =
        [m.node[item] EXCEPT !.string = 0,
                             !.type = WithFlag(@, cJSON_IsReference),
                             !.next = 0, !.prev = 0]]

cJSON_AddItemReferenceToArray(m, array, item) ==
  cJSON_AddItemToArray(create_reference(m, item), array, NewPtr(m))

cJSON_AddItemReferenceToObject(m, object, string, item) ==
  cJSON_AddItemToObject(create_reference(m, item), object, string, NewPtr(m))

\* cJSON_DetachItemViaPointer(parent, item); n is *item at entry.  The
\* functions that return a pointer give [m, p]: the memory and the pointer.
UnlinkPrev(m, n) ==
  IF n.prev # 0 THEN [m EXCEPT !.node[n.prev].next = n.next] ELSE m

UnlinkNext(m, n) ==
  IF n.next # 0 THEN [m EXCEPT !.node[n.next].prev = n.prev] ELSE m

UnlinkHead(m, parent, item, n) ==
  IF item = m.node[parent].child
  THEN [m EXCEPT !.node[parent].child = n.next] ELSE m

Unlinked(m, item) == [m EXCEPT !.node[item].prev = 0, !.node[item].next = 0]

\* a detach that leaves the parent's child pointer alone
DetachItemKeepingHead(m, parent, item) ==
  IF parent = 0 \/ item = 0 THEN [m |-> m, p |-> 0]
  ELSE [m |-> Unlinked(UnlinkNext(UnlinkPrev(m, m.node[item]), m.node[item]),
                       item),
        p |-> item]

cJSON_DetachItemViaPointer(m, parent, item) ==
  IF parent = 0 \/ item = 0 THEN [m |-> m, p |-> 0]
  ELSE [m |-> Unlinked(UnlinkHead(UnlinkNext(UnlinkPrev(m, m.node[item]),
                                             m.node[item]),
                                  parent, item, m.node[item]), item),
        p |-> item]

DetachWalked(m, array, c) ==
  IF c = 0 THEN [m |-> m, p |-> 0]
  ELSE cJSON_DetachItemViaPointer(m, array, c)

cJSON_DetachItemFromArray(m, array, which) ==
  DetachWalked(m, array, Walk(m, m.node[array].child, which))

\* the loops that look a key up and count the steps: [c, i]
RECURSIVE SeekCase(_, _, _, _)
SeekCase(m, c, string, i) ==
  IF c # 0 /\ cJSON_strcasecmp(m, m.node[c].string, string) # 0
  THEN SeekCase(m, m.node[c].next, string, i + 1)
  ELSE [c |-> c, i |-> i]

RECURSIVE SeekExact(_, _, _, _)
SeekExact(m, c, string, i) ==
  IF c # 0 /\ strcmp(m, m.node[c].string, string) # 0
  THEN SeekExact(m, m.node[c].next, string, i + 1)
  ELSE [c |-> c, i |-> i]

DetachFound(m, object, f) ==
  IF f.c # 0 THEN cJSON_DetachItemFromArray(m, object, f.i)
  ELSE [m |-> m, p |-> 0]

cJSON_DetachItemFromObject(m, object, string) ==
  DetachFound(m, object, SeekCase(m, m.node[object].child, string, 0))

cJSON_DetachItemFromObjectCaseSensitive(m, object, string) ==
  DetachFound(m, object, SeekExact(m, m.node[object].child, string, 0))

\* cJSON_InsertItemInArray, lines 1766-1776: newitem goes before c
InsertBefore(m, array, c, newitem) ==
  IF c = m.node[array].child
  THEN [m EXCEPT !.node[newitem].next = c,
                 !.node[newitem].prev = m.node[c].prev,
                 !.node[c].prev = newitem,
                 !.node[array].child = newitem]
  ELSE [m EXCEPT !.node[newitem].next = c,
                 !.node[newitem].prev = m.node[c].prev,
                 !.node[c].prev = newitem,
                 !.node[m.node[c].prev].next = newitem]

InsertWalked(m, array, c, newitem) ==
  IF c = 0 THEN cJSON_AddItemToArray(m, array, newitem)
  ELSE InsertBefore(m, array, c, newitem)

\* an insert that always appends
InsertItemAtEnd(m, array, which, newitem) ==
  cJSON_AddItemToArray(m, array, newitem)

cJSON_InsertItemInArray(m, array, which, newitem) ==
  InsertWalked(m, array, Walk(m, m.node[array].child, which), newitem)

\* cJSON_ReplaceItemViaPointer(parent, item, replacement); n is *item at
\* entry.  Gives [m, ok].
ReplaceNext(m, n, replacement) ==
  IF n.next # 0 THEN [m EXCEPT !.node[n.next].prev = replacement] ELSE m

ReplacePrev(m, n, replacement) ==
  IF n.prev # 0 THEN [m EXCEPT !.node[n.prev].next = replacement] ELSE m

ReplaceLinks(m, n, replacement) ==
  [m EXCEPT !.node[replacement].next = n.next,
            !.node[replacement].prev = n.prev]

ReplaceHead(m, parent, item, replacement) ==
  IF item = m.node[parent].child
  THEN [m EXCEPT !.node[parent].child = replacement] ELSE m

cJSON_ReplaceItemViaPointer(m, parent, item, replacement) ==
  IF parent = 0 \/ item = 0 \/ replacement = 0 THEN [m |-> m, ok |-> FALSE]
  ELSE [m |-> Delete(Unlinked(ReplaceHead(ReplaceLinks(
                       ReplacePrev(ReplaceNext(m, m.node[item], replacement),
                                   m.node[item], replacement),
                       m.node[item], replacement),
                     parent, item, replacement), item), item),
        ok |-> TRUE]

\* cJSON_ReplaceItemInArray, lines 1821-1836: newitem takes the place of c
ReplaceBackLink(m, newitem) ==
  IF m.node[newitem].next # 0
  THEN [m EXCEPT !.node[m.node[newitem].next].prev = newitem] ELSE m

ReplaceForwardLink(m, array, c, newitem) ==
  IF c = m.node[array].child
  THEN [m EXCEPT !.node[array].child = newitem]
  ELSE [m EXCEPT !.node[m.node[newitem].prev].next = newitem]

ReplaceWalked(m, array, c, newitem) ==
  IF c = 0 THEN m
  ELSE Delete(Unlinked(ReplaceForwardLink(
                ReplaceBackLink(ReplaceLinks(m, m.node[c], newitem), newitem),
                array, c, newitem), c), c)

\* a replace that takes the first child whatever the index
ReplaceItemAtFront(m, array, which, newitem) ==
  ReplaceWalked(m, array, m.node[array].child, newitem)

cJSON_ReplaceItemInArray(m, array, which, newitem) ==
  ReplaceWalked(m, array, Walk(m, m.node[array].child, which), newitem)

\* cJSON_ReplaceItemInObject and ...CaseSensitive once the key was sought
ReplaceFound(m, object, f, string, newitem) ==
  IF f.c # 0
  THEN cJSON_ReplaceItemInArray(
         [cJSON_strdup(m, Str(m, string)) EXCEPT
            !.node[newitem].string = NewText(m)],
         object, f.i, newitem)
  ELSE m

cJSON_ReplaceItemInObject(m, object, string, newitem) ==
  ReplaceFound(m, object, SeekCase(m, m.node[object].child, string, 0),
               string, newitem)

cJSON_ReplaceItemInObjectCaseSensitive(m, object, string, newitem) ==
  ReplaceFound(m, object, SeekExact(m, m.node[object].child, string, 0),
               string, newitem)

\* cJSON_Duplicate(item, recurse) for item # NULL; the duplicate is at
\* NewPtr(m).  n is *item, new the duplicate.
DupVars(m, n) ==
  [NewItem(m) EXCEPT
     !.node[NewPtr(m)].type = WithoutFlag(n.type, cJSON_IsReference),
     !.node[NewPtr(m)].valueint = n.valueint,
     !.node[NewPtr(m)].valuedouble = n.valuedouble]

DupValue(m, n, new) ==
  IF n.valuestring # 0
  THEN [cJSON_strdup(m, Str(m, n.valuestring)) EXCEPT
          !.node[new].valuestring = NewText(m)]
  ELSE m

DupKey(m, n, new) ==
  IF n.string = 0 THEN m
  ELSE IF HasFlag(n.type, cJSON_StringIsConst)
  THEN [m EXCEPT !.node[new].string = n.string]
  ELSE [cJSON_strdup(m, Str(m, n.string)) EXCEPT !.node[new].string = NewText(m)]

DupHead(m, item) ==
  DupKey(DupValue(DupVars(m, m.node[item]), m.node[item], NewPtr(m)),
         m.node[item], NewPtr(m))

DupLinked(m, newitem, nptr, newchild) ==
  IF nptr # 0
  THEN [m EXCEPT !.node[nptr].next = newchild, !.node[newchild].prev = nptr]
  ELSE [m EXCEPT !.node[newitem].child = newchild]

\* a duplicate that copies the struct and so shares what it points to
DuplicateSharing(m, item, recurse) ==
  [NewItem(m) EXCEPT
     !.node[NewPtr(m)] = [m.node[item] EXCEPT !.next = 0, !.prev = 0]]

RECURSIVE cJSON_Duplicate(_, _, _)
RECURSIVE DupChildren(_, _, _, _)
DupChildren(m, cptr, newitem, nptr) ==
  IF cptr = 0 THEN m
  ELSE DupChildren(DupLinked(cJSON_Duplicate(m, cptr, TRUE), newitem, nptr,
                             NewPtr(m)),
                   m.node[cptr].next, newitem, NewPtr(m))

cJSON_Duplicate(m, item, recurse) ==
  IF ~recurse THEN DupHead(m, item)
  ELSE DupChildren(DupHead(m, item), m.node[item].child, NewPtr(m), 0)

(***************************************************************************)
(* Input texts.  A text is a concatenation of at most MaxTokens tokens;    *)
(* the scenario texts of the specification are always among the inputs.    *)
(***************************************************************************)
MaxTokens == 3
MaxEscTokens == 3
MaxParses == 2

RECURSIVE TokenTexts(_, _)
TokenTexts(toks, n) ==
  IF n = 0 THEN {<<>>}
  ELSE LET shorter == TokenTexts(toks, n - 1)
       IN shorter \cup {s \o k : s \in shorter, k \in toks}

StructTokens ==
  { Bytes(<<"[">>), Bytes(<<"]">>), Bytes(<<"{">>), Bytes(<<"}">>),
    Bytes(<<",">>), Bytes(<<" ">>), Bytes(<<"x">>),
    Bytes(<<"1">>), Bytes(<<"1", ",">>), Bytes(<<"2", ",">>),
    Bytes(<<"n", "u", "l", "l">>),
    Bytes(<<"\"", "a", "\"">>), Bytes(<<"\"", "a", "\"", ":">>) }

Scenarios ==
  { Bytes(<<"[", "1", ",", "2", ",", "]">>),
    Bytes(<<"{", "\"", "a", "\"", ":", "1", ",", "}">>),
    Bytes(<<"{", "b", "a", "d", "}">>),
    Bytes(<<"\"", "a", "b", "c">>),
    Bytes(<<"{", "\"", "a", "\"", ":", "1", ",", "\"", "b", "\"", ":",
            "[", "1", ",", "2", ",", "3", "]", "}">>) }

StructInputs == Scenarios \cup TokenTexts(StructTokens, MaxTokens)

EscTokens ==
  { Bytes(<<"\"">>), Bytes(<<"\\">>), Bytes(<<"\\", "u">>), Bytes(<<"a">>),
    Bytes(<<"0", "0", "e", "9">>), Bytes(<<"d", "8", "3", "d">>),
    Bytes(<<"d", "e", "0", "0">>), Bytes(<<"d", "c", "0", "0">>),
    Bytes(<<"0", "0", "7", "5">>), Bytes(<<"0", "0", "0", "1">>) }

EscScenarios ==
  { Bytes(<<"\"", "\\", "u", "0", "0", "e", "9", "\"">>),
    Bytes(<<"\"", "\\", "u", "d", "8", "3", "d",
            "\\", "u", "d", "e", "0", "0", "\"">>) }

\* string literals that open with a \u escape
EscInputs ==
  EscScenarios \cup
  { Bytes(<<"\"", "\\", "u">>) \o s : s \in TokenTexts(EscTokens, MaxEscTokens) }

\* texts a caller parses after an earlier parse
FollowUps ==
  { Bytes(<<"1">>), Bytes(<<"[", "x">>), Bytes(<<"n", "u", "l", "l", " ", "x">>) }

\* the byte behind the terminator of the caller's buffer
SlackBytes == {0, 34}

PrebufferSizes == {1, 16}

(***************************************************************************)
(* State.                                                                  *)
(***************************************************************************)
VARIABLES
  input,             \* the text the caller put into the buffer
  buffer,            \* the bytes of that buffer now
  bufno,             \* the number of the buffer (a new one for every text)
  pc,                \* "ready": text loaded; "parsed": the parse returned
  require_null_terminated,  \* argument of the last parse
  supplied,          \* the last parse was given a return_parse_end
  root,              \* the tree the last parse returned, or None
  global_ep,         \* the shared error position
  return_parse_end,  \* what the last parse stored through return_parse_end
  parse_end,         \* parse_end of the last parse (NullPos: value failed)
  live,              \* allocations of the last parse not freed at return
  made,              \* allocations the last parse made
  nomem,             \* allocations that returned NULL in the last parse
  grow,              \* the sizes of a printbuffer and what ensure did with them
  over,              \* the last parse copied a string past its allocation
  printed,           \* the string the last print call returned, or None
  print_mode,        \* "none", "exact" or "buffered"
  print_fmt,         \* the fmt flag of the last print call
  first,             \* the tree whose printed text is the current input
  origin,            \* the text that tree was parsed from
  mem,               \* the structs and strings the caller's trees are made of
  roots,             \* the items the caller holds and owns (tree roots)
  call,              \* the last call of a tree function and what it returned
  calls              \* the number of calls of tree functions made so far

text_vars == <<input, buffer, bufno, pc, require_null_terminated, supplied,
               root, global_ep, return_parse_end, parse_end, live, made,
               nomem, grow, over, printed, print_mode, print_fmt, first, origin>>

tree_vars == <<mem, roots, call, calls>>

vars == <<text_vars, tree_vars>>

\* no printbuffer is being grown
NoGrow == [length |-> <<>>, offset |-> <<>>, needed |-> <<>>, called |-> FALSE]

\* no call of a tree function was made yet
NoCall ==
  [op |-> "none", object |-> 0, item |-> 0, which |-> 0, string |-> 0,
   ret |-> 0]

NoTrees ==
  /\ mem = EmptyMemory
  /\ roots = {}
  /\ call = NoCall
  /\ calls = 0

\* a buffer holding text t, on which no call has been made yet
Loaded(t) ==
  /\ input = t
  /\ buffer = t
  /\ pc = "ready"
  /\ require_null_terminated = FALSE
  /\ supplied = FALSE
  /\ root = None
  /\ return_parse_end = None
  /\ parse_end = NullPos
  /\ live = 0
  /\ made = 0
  /\ nomem = {}
  /\ grow = NoGrow
  /\ over = FALSE
  /\ printed = None
  /\ print_mode = "none"
  /\ print_fmt = FALSE

\* the caller puts text t into a new buffer
Load(t) ==
  /\ input' = t
  /\ buffer' = t
  /\ bufno' = bufno + 1
  /\ pc' = "ready"
  /\ require_null_terminated' = FALSE
  /\ supplied' = FALSE
  /\ root' = None
  /\ return_parse_end' = None
  /\ parse_end' = NullPos
  /\ live' = 0
  /\ made' = 0
  /\ nomem' = {}
  /\ grow' = grow
  /\ over' = FALSE
  /\ printed' = None
  /\ print_mode' = "none"
  /\ print_fmt' = FALSE

Init ==
  /\ \E t \in StructInputs : Loaded(t)
  /\ bufno = 1
  /\ global_ep = NullPtr
  /\ first = None
  /\ origin = None
  /\ NoTrees

InitEsc ==
  /\ \E t \in EscInputs : Loaded(t)
  /\ bufno = 1
  /\ global_ep = NullPtr
  /\ first = None
  /\ origin = None
  /\ NoTrees

\* the state after cJSON_ParseWithOpts returned r, the allocations in sites
\* having returned NULL
ReturnedWithout(r, sup, req, sites) ==
  /\ buffer' = r.t
  /\ root' = r.c
  /\ global_ep' = r.global_ep
  /\ return_parse_end' = r.return_parse_end
  /\ parse_end' = r.parse_end
  /\ live' = r.live
  /\ made' = r.made
  /\ nomem' = sites
  /\ grow' = grow
  /\ over' = r.over
  /\ require_null_terminated' = req
  /\ supplied' = sup
  /\ pc' = "parsed"
  /\ UNCHANGED <<input, bufno, printed, print_mode, print_fmt, first, origin>>
  /\ UNCHANGED tree_vars

\* the state after cJSON_ParseWithOpts returned r
Returned(r, sup, req) == ReturnedWithout(r, sup, req, {})

\* the caller runs cJSON_ParseWithOpts on the loaded text
ParseWithOpts(sup, req, slack) ==
  /\ pc = "ready"
  /\ Returned(cJSON_ParseWithOpts(buffer, bufno, slack, sup, req), sup, req)

\* the caller runs cJSON_Parse on the loaded text
Parse(slack) ==
  /\ pc = "ready"
  /\ Returned(cJSON_Parse(buffer, bufno, slack), FALSE, FALSE)

\* cJSON_Print (fmt) or cJSON_PrintUnformatted on the parsed tree
PrintTree(fmt) ==
  /\ pc = "parsed"
  /\ root # None
  /\ printed' = IF fmt THEN cJSON_Print(root[1]) ELSE cJSON_PrintUnformatted(root[1])
  /\ print_mode' = "exact"
  /\ print_fmt' = fmt
  /\ UNCHANGED <<input, buffer, bufno, pc, require_null_terminated, supplied,
                 root, global_ep, return_parse_end, parse_end, live, made,
                 nomem, grow, over,
                 first, origin>>
  /\ UNCHANGED tree_vars

PrintBuffered(prebuffer, fmt) ==
  /\ pc = "parsed"
  /\ root # None
  /\ printed' = cJSON_PrintBuffered(root[1], prebuffer, fmt)
  /\ print_mode' = "buffered"
  /\ print_fmt' = fmt
  /\ UNCHANGED <<input, buffer, bufno, pc, require_null_terminated, supplied,
                 root, global_ep, return_parse_end, parse_end, live, made,
                 nomem, grow, over,
                 first, origin>>
  /\ UNCHANGED tree_vars

\* the caller makes the text printed by the exact serializer its next input
\* and keeps the tree for comparison
LoadPrinted ==
  /\ pc = "parsed"
  /\ print_mode = "exact"
  /\ printed # None
  /\ bufno < MaxParses
  /\ Load(printed[1])
  /\ first' = root
  /\ origin' = Some(input)
  /\ UNCHANGED global_ep
  /\ UNCHANGED tree_vars

\* the caller deletes the tree and loads another text
NextInput(t) ==
  /\ pc = "parsed"
  /\ bufno < MaxParses
  /\ Load(t)
  /\ first' = None
  /\ origin' = None
  /\ UNCHANGED global_ep
  /\ UNCHANGED tree_vars

Next ==
  \/ \E sup \in BOOLEAN, req \in BOOLEAN, slack \in SlackBytes :
        ParseWithOpts(sup, req, slack)
  \/ \E slack \in SlackBytes : Parse(slack)
  \/ \E fmt \in BOOLEAN : PrintTree(fmt)
  \/ \E n \in PrebufferSizes, fmt \in BOOLEAN : PrintBuffered(n, fmt)
  \/ LoadPrinted
  \/ \E t \in FollowUps : NextInput(t)

Spec == Init /\ [][Next]_vars

SpecEsc == InitEsc /\ [][Next]_vars

(***************************************************************************)
(* The caller of the tree functions.  The caller starts with trees it      *)
(* built with the create and add functions and makes at most MaxCalls      *)
(* calls.  It hands a function only items it may hand it: an item that     *)
(* goes into a container is a root the caller holds, a container is not a  *)
(* reference item, and a tree is deleted only when no reference item       *)
(* elsewhere still shares its payload.                                     *)
(***************************************************************************)
MaxCalls == 3

IsRef(m, c) == HasFlag(m.node[c].type, cJSON_IsReference)

\* type & 0xFF
KindAt(m, c) == m.node[c].type % 256

\* the items of the chain that starts at c, in order
RECURSIVE Chain(_, _)
Chain(m, c) == IF c = 0 THEN <<>> ELSE <<c>> \o Chain(m, m.node[c].next)

ChildrenOf(m, c) == Chain(m, m.node[c].child)

IsChild(m, parent, item) ==
  \E k \in 1..Len(ChildrenOf(m, parent)) : ChildrenOf(m, parent)[k] = item

\* the items of the chain that starts at c and all items below them that
\* they own (the children of a reference item belong to another item)
RECURSIVE Tree(_, _)
Tree(m, c) ==
  IF c = 0 THEN {}
  ELSE {c} \cup (IF IsRef(m, c) THEN {} ELSE Tree(m, m.node[c].child))
           \cup Tree(m, m.node[c].next)

\* the same, with the children that reference items share
RECURSIVE Span(_, _)
Span(m, c) ==
  IF c = 0 THEN {}
  ELSE {c} \cup Span(m, m.node[c].child) \cup Span(m, m.node[c].next)

\* item c and what it owns
Below(m, c) == {c} \cup (IF IsRef(m, c) THEN {} ELSE Tree(m, m.node[c].child))

\* item c and all items below it, those of shared children included
Reach(m, c) == {c} \cup Span(m, m.node[c].child)

\* item c has not been freed
Live(m, c) == m.node_frees[c] = 0

\* item c is an array or object of one of the kinds, not a reference item
IsContainer(m, c, kinds) ==
  /\ Live(m, c)
  /\ KindAt(m, c) \in kinds
  /\ ~IsRef(m, c)

ContainerOrNull(m, c, kinds) ==
  IF c = 0 THEN TRUE ELSE IsContainer(m, c, kinds)

\* a reference item outside the tree of c shares the children or the
\* string of an item of that tree
Shared(m, c) ==
  \E n \in 1..Len(m.node) :
    /\ Live(m, n)
    /\ n \notin Below(m, c)
    /\ IsRef(m, n)
    /\ \/ m.node[n].child \in Below(m, c)
       \/ \E x \in Below(m, c) :
            /\ m.node[x].valuestring # 0
            /\ m.node[x].valuestring = m.node[n].valuestring

(***************************************************************************)
(* The trees the caller starts with.  A member is described by its key (a  *)
(* caller string, 0 for none), by whether the key is added with            *)
(* cJSON_AddItemToObjectCS, and by whether the item is an array holding    *)
(* one string (nested) or a string.                                        *)
(***************************************************************************)
Member(key, cs, nested) == [key |-> key, cs |-> cs, nested |-> nested]

\* the caller creates the item of description d; it is at NewPtr(m)
BuiltItem(m, d) ==
  IF d.nested
  THEN cJSON_AddItemToArray(
         cJSON_CreateString(cJSON_CreateArray(m), Bytes(<<"s">>)),
         NewPtr(m), NewPtr(m) + 1)
  ELSE cJSON_CreateString(m, Bytes(<<"s">>))

\* and adds it to the container
BuiltMember(m, container, d) ==
  IF d.key = 0 THEN cJSON_AddItemToArray(BuiltItem(m, d), container, NewPtr(m))
  ELSE IF d.cs
  THEN cJSON_AddItemToObjectCS(BuiltItem(m, d), container, d.key, NewPtr(m))
  ELSE cJSON_AddItemToObject(BuiltItem(m, d), container, d.key, NewPtr(m))

RECURSIVE BuiltMembers(_, _, _)
BuiltMembers(m, container, ds) ==
  IF ds = <<>> THEN m
  ELSE BuiltMembers(BuiltMember(m, container, Head(ds)), container, Tail(ds))

\* items the caller creates and keeps for later
RECURSIVE BuiltSpares(_, _)
BuiltSpares(m, ds) ==
  IF ds = <<>> THEN m ELSE BuiltSpares(BuiltItem(m, Head(ds)), Tail(ds))

BuiltTree(kind, ds, spares) ==
  BuiltSpares(BuiltMembers(CreateTyped(EmptyMemory, kind), 1, ds), spares)

\* the items that are no child of any item
Parentless(m) ==
  {n \in 1..Len(m.node) : \A p \in 1..Len(m.node) : ~IsChild(m, p, n)}

UpTo3(S) ==
  {<<>>} \cup {<<a>> : a \in S} \cup {<<a, b>> : a \in S, b \in S}
         \cup {<<a, b, c>> : a \in S, b \in S, c \in S}

UpTo2(S) == {<<>>} \cup {<<a>> : a \in S} \cup {<<a, b>> : a \in S, b \in S}

Keys == {0 - k : k \in 1..Len(CallerStrings)}

Leaf == Member(0, FALSE, FALSE)
Nest == Member(0, FALSE, TRUE)

LookupTrees ==
  {BuiltTree(cJSON_Array, ds, <<>>) : ds \in UpTo3({Leaf})}
  \cup {BuiltTree(cJSON_Object, ds, <<>>) :
          ds \in UpTo3({Member(k, FALSE, FALSE) : k \in Keys})}
  \cup {BuiltTree(cJSON_Object, ds, <<>>) :
          ds \in UpTo2({Member(k, TRUE, FALSE) : k \in Keys})}

EditTrees ==
  {BuiltTree(cJSON_Array, ds, <<Leaf>>) : ds \in UpTo2({Leaf, Nest})}
  \cup {BuiltTree(cJSON_Array, <<Leaf, Leaf, Leaf>>, <<Leaf>>)}
  \cup {BuiltTree(cJSON_Object, ds, <<Leaf>>) :
          ds \in UpTo2({Member(k, FALSE, FALSE) : k \in {-1, -2}})}

UpTo1(S) == {<<>>} \cup {<<a>> : a \in S}

OwnTrees ==
  {BuiltTree(cJSON_Array, ds, <<x>>) :
     ds \in UpTo1({Leaf, Nest}), x \in {Leaf, Nest}}
  \cup {BuiltTree(cJSON_Object, ds, <<x>>) :
          ds \in UpTo1({Member(-1, cs, FALSE) : cs \in BOOLEAN}),
          x \in {Leaf, Nest}}

Started(m) ==
  /\ Loaded(<<>>)
  /\ bufno = 1
  /\ global_ep = NullPtr
  /\ first = None
  /\ origin = None
  /\ mem = m
  /\ roots = Parentless(m)
  /\ call = NoCall
  /\ calls = 0

InitLookup == \E m \in LookupTrees : Started(m)
InitEdit == \E m \in EditTrees : Started(m)
InitOwn == \E m \in OwnTrees : Started(m)

Pointers == 1..Len(mem.node)
Indexes == 0..Len(mem.node)

Called(op, object, item, which, string, ret) ==
  [op |-> op, object |-> object, item |-> item, which |-> which,
   string |-> string, ret |-> ret]

\* a tree function returned: the memory, the caller's roots, the call
TreeStep(m, rs, c) ==
  /\ calls < MaxCalls
  /\ calls' = calls + 1
  /\ mem' = m
  /\ roots' = rs
  /\ call' = c
  /\ UNCHANGED text_vars

\* item is a root the caller holds, and neither container nor its chain of
\* children is part of the tree of item or of a tree that a reference item
\* of that tree shares
MayTake(container, item) ==
  /\ item \in roots
  /\ {container, mem.node[container].child} \cap Reach(mem, item) = {}

AddItemToArray(array, item) ==
  /\ IsContainer(mem, array, {cJSON_Array})
  /\ MayTake(array, item)
  /\ TreeStep(cJSON_AddItemToArray(mem, array, item), roots \ {item},
              Called("AddItemToArray", array, item, 0, 0, 0))

AddItemToObject(object, string, item) ==
  /\ IsContainer(mem, object, {cJSON_Object})
  /\ MayTake(object, item)
  /\ TreeStep(cJSON_AddItemToObject(mem, object, string, item), roots \ {item},
              Called("AddItemToObject", object, item, 0, string, 0))

AddItemToObjectCS(object, string, item) ==
  /\ IsContainer(mem, object, {cJSON_Object})
  /\ MayTake(object, item)
  /\ TreeStep(cJSON_AddItemToObjectCS(mem, object, string, item),
              roots \ {item},
              Called("AddItemToObjectCS", object, item, 0, string, 0))

AddItemReferenceToArray(array, item) ==
  /\ IsContainer(mem, array, {cJSON_Array})
  /\ MayTake(array, item)
  /\ TreeStep(cJSON_AddItemReferenceToArray(mem, array, item), roots,
              Called("AddItemReferenceToArray", array, item, 0, 0, NewPtr(mem)))

AddItemReferenceToObject(object, string, item) ==
  /\ IsContainer(mem, object, {cJSON_Object})
  /\ MayTake(object, item)
  /\ TreeStep(cJSON_AddItemReferenceToObject(mem, object, string, item), roots,
              Called("AddItemReferenceToObject", object, item, 0, string,
                     NewPtr(mem)))

\* a detach function returned d = [m, p]
Detached(d, op, object, item, which, string) ==
  TreeStep(d.m, IF d.p # 0 THEN roots \cup {d.p} ELSE roots,
           Called(op, object, item, which, string, d.p))

DetachItemViaPointer(parent, item) ==
  /\ IsContainer(mem, parent, {cJSON_Array, cJSON_Object})
  /\ IsChild(mem, parent, item)
  /\ Detached(cJSON_DetachItemViaPointer(mem, parent, item),
              "DetachItemViaPointer", parent, item, 0, 0)

DetachItemFromArray(array, which) ==
  /\ IsContainer(mem, array, {cJSON_Array, cJSON_Object})
  /\ Detached(cJSON_DetachItemFromArray(mem, array, which),
              "DetachItemFromArray", array, 0, which, 0)

DetachItemFromObject(object, string) ==
  /\ IsContainer(mem, object, {cJSON_Object})
  /\ Detached(cJSON_DetachItemFromObject(mem, object, string),
              "DetachItemFromObject", object, 0, 0, string)

DetachItemFromObjectCaseSensitive(object, string) ==
  /\ IsContainer(mem, object, {cJSON_Object})
  /\ Detached(cJSON_DetachItemFromObjectCaseSensitive(mem, object, string),
              "DetachItemFromObjectCaseSensitive", object, 0, 0, string)

InsertItemInArray(array, which, newitem) ==
  /\ IsContainer(mem, array, {cJSON_Array})
  /\ MayTake(array, newitem)
  /\ TreeStep(cJSON_InsertItemInArray(mem, array, which, newitem),
              roots \ {newitem},
              Called("InsertItemInArray", array, newitem, which, 0, 0))

\* the child that an index addresses may be deleted (or there is none)
MayDelete(c) == IF c = 0 THEN TRUE ELSE ~Shared(mem, c)

MayDeleteAt(container, which) ==
  MayDelete(Walk(mem, mem.node[container].child, which))

ReplaceItemViaPointer(parent, item, replacement) ==
  /\ IsContainer(mem, parent, {cJSON_Array, cJSON_Object})
  /\ IsChild(mem, parent, item)
  /\ MayTake(parent, replacement)
  /\ KindAt(mem, parent) = cJSON_Array \/ mem.node[replacement].string # 0
  /\ ~Shared(mem, item)
  /\ TreeStep(cJSON_ReplaceItemViaPointer(mem, parent, item, replacement).m,
              roots \ {replacement},
              Called("ReplaceItemViaPointer", parent, item, 0, replacement, 1))

\* a replace function that returns nothing returned memory m
Replaced(m, op, object, which, string, newitem) ==
  TreeStep(m, IF m = mem THEN roots ELSE roots \ {newitem},
           Called(op, object, newitem, which, string, 0))

ReplaceItemInArray(array, which, newitem) ==
  /\ IsContainer(mem, array, {cJSON_Array})
  /\ MayTake(array, newitem)
  /\ MayDeleteAt(array, which)
  /\ Replaced(cJSON_ReplaceItemInArray(mem, array, which, newitem),
              "ReplaceItemInArray", array, which, 0, newitem)

ReplaceItemInObject(object, string, newitem) ==
  /\ IsContainer(mem, object, {cJSON_Object})
  /\ MayTake(object, newitem)
  /\ MayDeleteAt(object, SeekCase(mem, mem.node[object].child, string, 0).i)
  /\ Replaced(cJSON_ReplaceItemInObject(mem, object, string, newitem),
              "ReplaceItemInObject", object, 0, string, newitem)

ReplaceItemInObjectCaseSensitive(object, string, newitem) ==
  /\ IsContainer(mem, object, {cJSON_Object})
  /\ MayTake(object, newitem)
  /\ MayDeleteAt(object, SeekExact(mem, mem.node[object].child, string, 0).i)
  /\ Replaced(cJSON_ReplaceItemInObjectCaseSensitive(mem, object, string, newitem),
              "ReplaceItemInObjectCaseSensitive", object, 0, string, newitem)

\* cJSON_Duplicate returned memory m; the duplicate is the first struct it
\* allocated
Duplicated(m, item, recurse) ==
  /\ TreeStep(m, roots \cup {NewPtr(mem)},
              Called("Duplicate", 0, item, IF recurse THEN 1 ELSE 0, 0,
                     NewPtr(mem)))

Duplicate(item, recurse) ==
  /\ Live(mem, item)
  /\ Duplicated(cJSON_Duplicate(mem, item, recurse), item, recurse)

DeleteTree(item) ==
  /\ item \in roots
  /\ ~Shared(mem, item)
  /\ TreeStep(Delete(mem, item), roots \ {item},
              Called("Delete", 0, item, 0, 0, 0))

\* array is a container the caller holds, or NULL
GetArrayItem(array, which) ==
  /\ ContainerOrNull(mem, array, {cJSON_Array, cJSON_Object})
  /\ TreeStep(mem, roots,
              Called("GetArrayItem", array, 0, which, 0,
                     cJSON_GetArrayItem(mem, array, which)))

GetArraySize(array) ==
  /\ IsContainer(mem, array, {cJSON_Array, cJSON_Object})
  /\ TreeStep(mem, roots,
              Called("GetArraySize", array, 0, 0, 0,
                     cJSON_GetArraySize(mem, array)))

GetObjectItem(object, string) ==
  /\ ContainerOrNull(mem, object, {cJSON_Object})
  /\ TreeStep(mem, roots,
              Called("GetObjectItem", object, 0, 0, string,
                     cJSON_GetObjectItem(mem, object, string)))

GetObjectItemCaseSensitive(object, string) ==
  /\ ContainerOrNull(mem, object, {cJSON_Object})
  /\ TreeStep(mem, roots,
              Called("GetObjectItemCaseSensitive", object, 0, 0, string,
                     cJSON_GetObjectItemCaseSensitive(mem, object, string)))

\* the caller looks items up in its arrays and objects
NextLookup ==
  \/ \E a \in Pointers \cup {0}, w \in Indexes \cup {-1} : GetArrayItem(a, w)
  \/ \E a \in Pointers : GetArraySize(a)
  \/ \E o \in Pointers \cup {0}, s \in Keys : GetObjectItem(o, s)
  \/ \E o \in Pointers \cup {0}, s \in Keys : GetObjectItemCaseSensitive(o, s)

SpecLookup == InitLookup /\ [][NextLookup]_vars

\* the caller detaches, inserts, adds and replaces children
NextEdit ==
  \/ \E a \in Pointers, i \in Pointers : AddItemToArray(a, i)
  \/ \E o \in Pointers, s \in Keys, i \in Pointers : AddItemToObject(o, s, i)
  \/ \E p \in Pointers, i \in Pointers : DetachItemViaPointer(p, i)
  \/ \E a \in Pointers, w \in Indexes : DetachItemFromArray(a, w)
  \/ \E o \in Pointers, s \in Keys : DetachItemFromObject(o, s)
  \/ \E o \in Pointers, s \in Keys : DetachItemFromObjectCaseSensitive(o, s)
  \/ \E a \in Pointers, w \in Indexes, i \in Pointers :
        InsertItemInArray(a, w, i)
  \/ \E p \in Pointers, i \in Pointers, r \in Pointers :
        ReplaceItemViaPointer(p, i, r)
  \/ \E a \in Pointers, w \in Indexes, i \in Pointers :
        ReplaceItemInArray(a, w, i)
  \/ \E o \in Pointers, s \in Keys, i \in Pointers : ReplaceItemInObject(o, s, i)
  \/ \E o \in Pointers, s \in Keys, i \in Pointers :
        ReplaceItemInObjectCaseSensitive(o, s, i)

SpecEdit == InitEdit /\ [][NextEdit]_vars

\* the caller adds keys and references, duplicates, detaches and deletes
NextOwn ==
  \/ \E a \in Pointers, i \in Pointers : AddItemToArray(a, i)
  \/ \E o \in Pointers, s \in {-1}, i \in Pointers : AddItemToObject(o, s, i)
  \/ \E o \in Pointers, s \in {-1}, i \in Pointers : AddItemToObjectCS(o, s, i)
  \/ \E a \in Pointers, i \in Pointers : AddItemReferenceToArray(a, i)
  \/ \E o \in Pointers, s \in {-1}, i \in Pointers :
        AddItemReferenceToObject(o, s, i)
  \/ \E a \in Pointers, w \in Indexes : DetachItemFromArray(a, w)
  \/ \E i \in Pointers, recurse \in BOOLEAN : Duplicate(i, recurse)
  \/ \E i \in Pointers : DeleteTree(i)

SpecOwn == InitOwn /\ [][NextOwn]_vars

(***************************************************************************)
(* Properties of the parser and the serializers.                           *)
(***************************************************************************)

\* the String node parse_string leaves for a literal whose content is bytes
StringOf(bytes) ==
  [cJSON_New_Item EXCEPT !.type = cJSON_String, !.valuestring = Some(bytes)]

\* C1: a string literal with a \u escape parses to the UTF-8 encoding of the
\* escaped code point: "\u00e9" to the two bytes C3 A9 of U+00E9, and the
\* surrogate pair "\ud83d\ude00" to the four bytes F0 9F 98 80 of U+1F600.
C1_EscapeDecoded ==
  /\ (pc = "parsed"
      /\ input = Bytes(<<"\"", "\\", "u", "0", "0", "e", "9", "\"">>))
       => root = Some(StringOf(<<195, 169>>))
  /\ (pc = "parsed"
      /\ input = Bytes(<<"\"", "\\", "u", "d", "8", "3", "d",
                         "\\", "u", "d", "e", "0", "0", "\"">>))
       => root = Some(StringOf(<<240, 159, 152, 128>>))

\* C2: whatever the tree, the pretty flag and the prebuffer size, the
\* buffered serializer returns the bytes the exact serializer returns.
C2_BufferedEqualsExact ==
  print_mode = "buffered" =>
    printed = (IF print_fmt THEN cJSON_Print(root[1])
               ELSE cJSON_PrintUnformatted(root[1]))

\* a string literal of the JSON grammar: body is what follows the opening
\* quote, up to and including the closing quote, which ends the text
RECURSIVE ValidStringBody(_)
ValidStringBody(body) ==
  IF body = <<>> THEN FALSE
  ELSE IF Head(body) = Ch("\"") THEN Len(body) = 1
  ELSE IF Head(body) < 32 THEN FALSE
  ELSE IF Head(body) # Ch("\\") THEN ValidStringBody(Tail(body))
  ELSE IF Len(body) < 2 THEN FALSE
  ELSE IF body[2] \in SimpleEscapes THEN ValidStringBody(SubSeq(body, 3, Len(body)))
  ELSE IF body[2] # Ch("u") \/ Len(body) < 6 THEN FALSE
  ELSE /\ \A i \in 3..6 : HexVal(body[i]) >= 0
       /\ ValidStringBody(SubSeq(body, 7, Len(body)))

ValidStringText(t) ==
  /\ Len(t) >= 2
  /\ t[1] = Ch("\"")
  /\ ValidStringBody(Tail(t))

\* C3: for a valid JSON text t (here: a valid string literal), parsing the
\* text printed from parse(t) gives a tree equal to parse(t).
C3_RoundTrip ==
  (pc = "parsed" /\ first # None /\ ValidStringText(origin[1])) => root = first

\* the byte at offset q of text t; 0, the terminator, at its end
ByteAt(t, q) == IF q < Len(t) THEN t[q + 1] ELSE 0

\* the offset of the first byte above 32 at or behind offset p, or the end
FirstNonSpace(t, p) ==
  CHOOSE q \in p..Len(t) :
    /\ q = Len(t) \/ t[q + 1] > 32
    /\ \A r \in p..(q - 1) : t[r + 1] <= 32

HasPrefix(t, prefix) ==
  Len(t) >= Len(prefix) /\ SubSeq(t, 1, Len(prefix)) = prefix

\* the kind of the value whose text starts with byte c
KindOf(c) ==
  CASE c = Ch("\"") -> cJSON_String
    [] c = Ch("[") -> cJSON_Array
    [] c = Ch("{") -> cJSON_Object
    [] c = Ch("n") -> cJSON_NULL
    [] c = Ch("t") -> cJSON_True
    [] c = Ch("f") -> cJSON_False
    [] OTHER -> cJSON_Number

(***************************************************************************)
(* The values written directly inside the outermost array or object of a   *)
(* text, as the sequence of their first bytes, in source order.  i is the  *)
(* read position, depth the bracket depth, array tells whether the         *)
(* outermost bracket is '[', expect whether a value comes next at depth 1, *)
(* quoted whether i is inside a string.  The texts hold no escapes.        *)
(***************************************************************************)
RECURSIVE ScanValues(_, _, _, _, _, _, _)
ScanValues(t, i, depth, array, expect, quoted, acc) ==
  IF i > Len(t) THEN acc
  ELSE IF quoted
  THEN ScanValues(t, i + 1, depth, array, expect, t[i] # Ch("\""), acc)
  ELSE IF t[i] <= 32
  THEN ScanValues(t, i + 1, depth, array, expect, FALSE, acc)
  ELSE IF depth = 0
  THEN IF t[i] = Ch("[") THEN ScanValues(t, i + 1, 1, TRUE, TRUE, FALSE, acc)
       ELSE IF t[i] = Ch("{") THEN ScanValues(t, i + 1, 1, FALSE, FALSE, FALSE, acc)
       ELSE acc
  ELSE IF t[i] = Ch("]") \/ t[i] = Ch("}")
  THEN IF depth = 1 THEN acc
       ELSE ScanValues(t, i + 1, depth - 1, array, expect, FALSE, acc)
  ELSE IF depth = 1 /\ t[i] = Ch(",")
  THEN ScanValues(t, i + 1, depth, array, array, FALSE, acc)
  ELSE IF depth = 1 /\ t[i] = Ch(":")
  THEN ScanValues(t, i + 1, depth, array, TRUE, FALSE, acc)
  ELSE ScanValues(t, i + 1,
                  IF t[i] = Ch("[") \/ t[i] = Ch("{") THEN depth + 1 ELSE depth,
                  array, FALSE, t[i] = Ch("\""),
                  IF depth = 1 /\ expect THEN Append(acc, t[i]) ELSE acc)

TopValues(t) == ScanValues(t, 1, 0, FALSE, FALSE, FALSE, <<>>)

NumberOf(n) ==
  [cJSON_New_Item EXCEPT !.type = cJSON_Number, !.valueint = n,
                         !.valuedouble = [neg |-> FALSE, mant |-> n, exp |-> 0]]

\* C4: a comma followed by the closing bracket adds no child: [1,2,] parses
\* to an array of the two elements 1 and 2, {"a":1,} to an object of the one
\* member a, and the children of every parsed array or object are the values
\* written in the text, one child per value, in source order.
C4_TrailingComma ==
  /\ (pc = "parsed" /\ input = Bytes(<<"[", "1", ",", "2", ",", "]">>))
       => /\ root # None
          /\ root[1].type = cJSON_Array
          /\ root[1].child = <<NumberOf(1), NumberOf(2)>>
  /\ (pc = "parsed"
      /\ input = Bytes(<<"{", "\"", "a", "\"", ":", "1", ",", "}">>))
       => /\ root # None
          /\ root[1].type = cJSON_Object
          /\ root[1].child = <<[NumberOf(1) EXCEPT !.string = Some(<<Ch("a")>>)]>>
  /\ (pc = "parsed" /\ root # None
      /\ root[1].type \in {cJSON_Array, cJSON_Object})
       => /\ Len(root[1].child) = Len(TopValues(input))
          /\ \A k \in 1..Len(root[1].child) :
               root[1].child[k].type = KindOf(TopValues(input)[k])

\* C4 happens: [1,2,] was parsed into an array of two children
C4_Witness ==
  /\ pc = "parsed"
  /\ input = Bytes(<<"[", "1", ",", "2", ",", "]">>)
  /\ root # None
  /\ Len(root[1].child) = 2

Digit09 == {Ch("0") + d : d \in 0..9}

\* the text at offset q starts null, false, true, a string, a number, an
\* array or an object
StartsValue(t, q) ==
  \/ ByteAt(t, q) \in {Ch("\""), Ch("-"), Ch("["), Ch("{")} \cup Digit09
  \/ HasPrefix(SubSeq(t, q + 1, Len(t)), Bytes(<<"n", "u", "l", "l">>))
  \/ HasPrefix(SubSeq(t, q + 1, Len(t)), Bytes(<<"f", "a", "l", "s", "e">>))
  \/ HasPrefix(SubSeq(t, q + 1, Len(t)), Bytes(<<"t", "r", "u", "e">>))

(***************************************************************************)
(* Places of a text where the parser expects something: behind prefix,     *)
(* the next character above 32 must start a value (if value) or be one of  *)
(* the bytes in allowed.                                                   *)
(***************************************************************************)
Place(prefix, value, allowed) ==
  [prefix |-> Bytes(prefix), value |-> value, allowed |-> allowed]

NumberTail == Digit09 \cup {Ch("."), Ch("e"), Ch("E")}

Places ==
  \* a value position: the top level, behind a colon
  { Place(p, TRUE, {}) :
      p \in { <<>>, <<"{", "\"", "a", "\"", ":">>,
              <<"[", "{", "\"", "a", "\"", ":">> } }
  \cup
  \* an element position: behind '[' or behind a comma of an array
  { Place(p, TRUE, {Ch("]")}) :
      p \in { <<"[">>, <<"[", "[">>, <<"[", "1", ",">>, <<"[", "2", ",">>,
              <<"[", "\"", "a", "\"", ",">>, <<"[", "n", "u", "l", "l", ",">>,
              <<"[", "1", ",", "2", ",">>, <<"{", "\"", "a", "\"", ":", "[">> } }
  \cup
  \* a member position: behind '{' or behind a comma of an object
  { Place(p, FALSE, {Ch("\""), Ch("}")}) :
      p \in { <<"{">>, <<"[", "{">>, <<"{", "\"", "a", "\"", ":", "1", ",">>,
              <<"{", "\"", "a", "\"", ":", "n", "u", "l", "l", ",">> } }
  \cup
  \* behind a child of an array
  { Place(p, FALSE, {Ch(","), Ch("]")}) :
      p \in { <<"[", "\"", "a", "\"">>, <<"[", "n", "u", "l", "l">>,
              <<"[", "[", "]">>, <<"[", "{", "}">>,
              <<"[", "1", ",", "\"", "a", "\"">>,
              <<"[", "1", ",", "n", "u", "l", "l">> } }
  \cup
  \* behind a number child of an array: more digits belong to the number
  { Place(p, FALSE, {Ch(","), Ch("]")} \cup NumberTail) :
      p \in { <<"[", "1">>, <<"[", "1", ",", "1">>, <<"[", "2", ",", "1">> } }
  \cup
  \* behind a member of an object
  { Place(p, FALSE, {Ch(","), Ch("}")}) :
      p \in { <<"{", "\"", "a", "\"", ":", "\"", "a", "\"">>,
              <<"{", "\"", "a", "\"", ":", "n", "u", "l", "l">>,
              <<"{", "\"", "a", "\"", ":", "[", "]">> } }
  \cup
  { Place(p, FALSE, {Ch(","), Ch("}")} \cup NumberTail) :
      p \in { <<"{", "\"", "a", "\"", ":", "1">> } }

\* the character of text t behind the prefix of place pl is an offending one
Offending(t, pl) ==
  /\ HasPrefix(t, pl.prefix)
  /\ ByteAt(t, FirstNonSpace(t, Len(pl.prefix))) \notin pl.allowed
  /\ ~(pl.value /\ StartsValue(t, FirstNonSpace(t, Len(pl.prefix))))

\* C5: a character that cannot stand at a value position, or that follows a
\* child and is neither a comma nor the closing bracket, makes parse return
\* no tree and leaves the error position at the offset of that character;
\* for {bad} that is offset 1, the offset of b.
C5_ErrorAtOffendingCharacter ==
  /\ \A pl \in Places :
       (pc = "parsed" /\ Offending(input, pl))
         => /\ root = None
            /\ global_ep = Ptr(bufno, FirstNonSpace(input, Len(pl.prefix)))
  /\ (pc = "parsed" /\ input = Bytes(<<"{", "b", "a", "d", "}">>))
       => /\ root = None
          /\ global_ep = Ptr(bufno, 1)

\* C5 happens: {bad} was rejected with the error position at b
C5_Witness ==
  /\ pc = "parsed"
  /\ input = Bytes(<<"{", "b", "a", "d", "}">>)
  /\ root = None
  /\ global_ep = Ptr(bufno, 1)

\* texts that are one complete value each
CompleteValues ==
  { Bytes(<<"n", "u", "l", "l">>), Bytes(<<"[", "]">>), Bytes(<<"{", "}">>),
    Bytes(<<"\"", "a", "\"">>), Bytes(<<"[", "1", "]">>),
    Bytes(<<"[", "1", ",", "]">>), Bytes(<<"{", "\"", "a", "\"", ":", "1", "}">>) }

\* C8: with require_null_terminated set, parse returns a tree only if
\* nothing but whitespace follows the value; otherwise it returns no tree,
\* has freed what it built and leaves the error position at the first
\* character above 32 behind the value.  With the flag unset the text behind
\* the value is ignored.
C8_RequireFullyConsumed ==
  /\ (pc = "parsed" /\ require_null_terminated /\ root # None)
       => \A i \in (parse_end + 1)..Len(input) : input[i] <= 32
  /\ \A v \in CompleteValues :
       (pc = "parsed" /\ HasPrefix(input, v))
         => IF require_null_terminated /\ FirstNonSpace(input, Len(v)) < Len(input)
            THEN /\ root = None
                 /\ global_ep = Ptr(bufno, FirstNonSpace(input, Len(v)))
                 /\ live = 0
            ELSE /\ root # None
                 /\ parse_end = Len(v)

\* C8 happens: "null x" was rejected under the flag, the error position at x
C8_Witness ==
  /\ pc = "parsed"
  /\ require_null_terminated
  /\ input = Bytes(<<"n", "u", "l", "l", " ", "x">>)
  /\ root = None
  /\ global_ep = Ptr(bufno, 5)
  /\ live = 0

\* the text opens a string, an array or an object and ends before the
\* closing quote or bracket (the texts of this model hold no escaped quote)
Truncated(t) ==
  /\ t # <<>>
  /\ \/ t[1] = Ch("\"") /\ \A i \in 2..Len(t) : t[i] # Ch("\"")
     \/ t[1] = Ch("[") /\ \A i \in 2..Len(t) : t[i] # Ch("]")
     \/ t[1] = Ch("{") /\ \A i \in 2..Len(t) : t[i] # Ch("}")

\* C6: a text that ends in the middle of a value, such as a string literal
\* without its closing quote, makes parse return no tree.
C6_TruncatedRejected ==
  (pc = "parsed" /\ Truncated(input)) => root = None

\* the code unit of the \u escape whose backslash is t[at]; -1 when the four
\* characters behind \u are not all there or not all hex digits
CodeUnit(t, at) ==
  IF Len(t) < at + 5 \/ t[at] # Ch("\\") \/ t[at + 1] # Ch("u") THEN -1
  ELSE IF \E i \in 2..5 : HexVal(t[at + i]) < 0 THEN -1
  ELSE (((((HexVal(t[at + 2]) * 16) + HexVal(t[at + 3])) * 16)
          + HexVal(t[at + 4])) * 16) + HexVal(t[at + 5])

\* the string literal t opens with an escape that is a lone low surrogate,
\* or a high surrogate with no low surrogate escape right behind it
UnpairedSurrogate(t) ==
  /\ t # <<>>
  /\ t[1] = Ch("\"")
  /\ \/ CodeUnit(t, 2) \in 56320..57343
     \/ /\ CodeUnit(t, 2) \in 55296..56319
        /\ CodeUnit(t, 8) \notin 56320..57343

\* C7: an unpaired surrogate escape makes parse return no tree, whatever
\* follows it inside the string.
C7_UnpairedSurrogateRejected ==
  (pc = "parsed" /\ UnpairedSurrogate(input)) => root = None

\* C9: after a parse that returned a tree the error position is NULL; after
\* a parse that returned none it lies inside the text of that parse.
C9_ErrorPositionOfLatestParse ==
  pc = "parsed" =>
    /\ root # None => global_ep = NullPtr
    /\ root = None => /\ global_ep.buf = bufno
                      /\ global_ep.off \in 0..Len(input)

\* C10: when the parse succeeds and return_parse_end was supplied, it
\* receives the position where the parse of the value ended.
C10_ParseEndReturned ==
  (pc = "parsed" /\ supplied /\ root # None) =>
    return_parse_end = Some(Ptr(bufno, parse_end))

(***************************************************************************)
(* Lookup by key and by index.                                             *)
(***************************************************************************)
\* the bytes with the ASCII capital letters replaced by their small letters
Folded(bytes, fold) ==
  [k \in 1..Len(bytes) |->
     IF fold /\ bytes[k] \in 65..90 THEN bytes[k] + 32 ELSE bytes[k]]

\* the positions of the members of the chain whose key is the wanted one
KeyedAt(m, chain, bytes, fold) ==
  {k \in 1..Len(chain) :
     Folded(Str(m, m.node[chain[k]].string), fold) = Folded(bytes, fold)}

Least(S) == CHOOSE k \in S : \A j \in S : k <= j

\* the first member with the wanted key, 0 when there is none
FirstKeyed(m, chain, bytes, fold) ==
  IF KeyedAt(m, chain, bytes, fold) = {} THEN 0
  ELSE chain[Least(KeyedAt(m, chain, bytes, fold))]

\* the object of the last call has the single key "Name", asked for "name"
OnlyNameAskedName ==
  /\ call.object # 0
  /\ Len(ChildrenOf(mem, call.object)) = 1
  /\ Str(mem, mem.node[mem.node[call.object].child].string) = CallerStrings[1]
  /\ Str(mem, call.string) = CallerStrings[2]

Without(chain, x) == SelectSeq(chain, LAMBDA y : y # x)

\* the chain with x put at position k (1 is the front)
WithAt(chain, k, x) ==
  SubSeq(chain, 1, k - 1) \o <<x>> \o SubSeq(chain, k, Len(chain))

\* the chain with x in the place of y
WithInstead(chain, y, x) ==
  [k \in 1..Len(chain) |-> IF chain[k] = y THEN x ELSE chain[k]]

Items(chain) == {chain[k] : k \in 1..Len(chain)}

\* the children are distinct, the first has no prev, and every other one
\* has the one before it as prev
WellLinked(m, parent) ==
  /\ Cardinality(Items(ChildrenOf(m, parent))) = Len(ChildrenOf(m, parent))
  /\ \A k \in 1..Len(ChildrenOf(m, parent)) :
       m.node[ChildrenOf(m, parent)[k]].prev =
         IF k = 1 THEN 0 ELSE ChildrenOf(m, parent)[k - 1]

\* the child a detach call is to take out of the chain, 0 when there is none
Sought(m, chain, c) ==
  IF c.op = "DetachItemViaPointer" THEN c.item
  ELSE IF c.op = "DetachItemFromArray"
  THEN (IF c.which < Len(chain) THEN chain[c.which + 1] ELSE 0)
  ELSE FirstKeyed(m, chain, Str(m, c.string), c.op = "DetachItemFromObject")

DetachOps ==
  {"DetachItemViaPointer", "DetachItemFromArray", "DetachItemFromObject",
   "DetachItemFromObjectCaseSensitive"}

\* a detach step returns the child sought and leaves the others linked in
\* their order
DetachStep ==
  call'.op \in DetachOps =>
    /\ call'.ret = Sought(mem, ChildrenOf(mem, call'.object), call')
    /\ call'.ret = 0 => mem' = mem
    /\ call'.ret # 0 =>
         /\ ChildrenOf(mem', call'.object) =
              Without(ChildrenOf(mem, call'.object), call'.ret)
         /\ WellLinked(mem', call'.object)
         /\ mem'.node[call'.ret].next = 0
         /\ mem'.node[call'.ret].prev = 0
         /\ mem'.node[call'.ret].child = mem.node[call'.ret].child

\* the item detached by the last call goes back into a container
ReAddStep ==
  (/\ call.op \in DetachOps
   /\ call.ret # 0
   /\ call'.op \in {"AddItemToArray", "AddItemToObject", "InsertItemInArray"}
   /\ call'.item = call.ret) =>
    /\ Items(ChildrenOf(mem', call'.object)) =
         Items(ChildrenOf(mem, call'.object)) \cup {call.ret}
    /\ Without(ChildrenOf(mem', call'.object), call.ret) =
         ChildrenOf(mem, call'.object)
    /\ WellLinked(mem', call'.object)

\* C12: detaching by pointer, by index or by key takes exactly the child
\* sought out of the chain; the remaining children keep their order and
\* their links, with the parent's child pointer moved when the first child
\* went; the detached item has next and prev cleared; appending or inserting
\* it again gives a chain of the same items with no dangling link.
C12_Detach == [][DetachStep /\ ReAddStep]_vars

\* the middle child of three was detached by index
C12_Witness ==
  /\ call.op = "DetachItemFromArray"
  /\ call.which = 1
  /\ call.ret # 0
  /\ Len(ChildrenOf(mem, call.object)) = 2
  /\ mem.node[call.ret].next = 0

\* an insert step puts the new item at the index, or at the end when the
\* index is not one of a child
InsertStep ==
  call'.op = "InsertItemInArray" =>
    /\ ChildrenOf(mem', call'.object) =
         WithAt(ChildrenOf(mem, call'.object),
                IF call'.which < Len(ChildrenOf(mem, call'.object))
                THEN call'.which + 1
                ELSE Len(ChildrenOf(mem, call'.object)) + 1,
                call'.item)
    /\ cJSON_GetArraySize(mem', call'.object) =
         cJSON_GetArraySize(mem, call'.object) + 1
    /\ WellLinked(mem', call'.object)

\* C13: cJSON_InsertItemInArray(array, i, new) with 0 <= i < size puts new at
\* index i and moves the children that were at i..size-1 one place to the
\* right; with i >= size it appends new; the size grows by one either way.
C13_Insert == [][InsertStep]_vars

\* an item was inserted between two children
C13_Witness ==
  /\ call.op = "InsertItemInArray"
  /\ call.which = 1
  /\ Len(ChildrenOf(mem, call.object)) >= 3
  /\ ChildrenOf(mem, call.object)[2] = call.item

ReplaceOps ==
  {"ReplaceItemViaPointer", "ReplaceItemInArray", "ReplaceItemInObject",
   "ReplaceItemInObjectCaseSensitive"}

\* the child a replace call is to replace, 0 when there is none
Original(m, chain, c) ==
  IF c.op = "ReplaceItemViaPointer" THEN c.item
  ELSE IF c.op = "ReplaceItemInArray"
  THEN (IF c.which < Len(chain) THEN chain[c.which + 1] ELSE 0)
  ELSE FirstKeyed(m, chain, Str(m, c.string), c.op = "ReplaceItemInObject")

\* the item a replace call puts in
Replacement(c) == IF c.op = "ReplaceItemViaPointer" THEN c.string ELSE c.item

\* the heap strings that the items of the set own
OwnedTexts(m, items) ==
  {m.node[n].valuestring : n \in {x \in items : ~IsRef(m, x)}}
  \cup {m.node[n].string :
          n \in {x \in items : ~HasFlag(m.node[x].type, cJSON_StringIsConst)}}

\* between memories m and after, the items of the set and the strings they
\* own were freed once more and nothing else was freed
FreedOnce(m, after, items) ==
  /\ \A n \in 1..Len(m.node) :
       after.node_frees[n] = m.node_frees[n] + (IF n \in items THEN 1 ELSE 0)
  /\ \A t \in 1..Len(m.text) :
       after.text_frees[t] =
         m.text_frees[t] + (IF t \in OwnedTexts(m, items) THEN 1 ELSE 0)
  /\ \A n \in (Len(m.node) + 1)..Len(after.node) : after.node_frees[n] = 0
  /\ \A t \in (Len(m.text) + 1)..Len(after.text) : after.text_frees[t] = 0
  /\ after.const_freed = m.const_freed

\* a replace step with original o (0: none) and replacement r
ReplaceStepOn(o, r) ==
  IF o = 0 THEN mem' = mem
  ELSE /\ ChildrenOf(mem', call'.object) =
            WithInstead(ChildrenOf(mem, call'.object), o, r)
       /\ WellLinked(mem', call'.object)
       /\ cJSON_GetArraySize(mem', call'.object) =
            cJSON_GetArraySize(mem, call'.object)
       /\ FreedOnce(mem, mem', Below(mem, o))
       /\ \A n \in Below(mem, o) : mem.node_frees[n] = 0

ReplaceStep ==
  call'.op \in ReplaceOps =>
    ReplaceStepOn(Original(mem, ChildrenOf(mem, call'.object), call'),
                  Replacement(call'))

\* C14: replacing a child by pointer, by index or by key puts the
\* replacement at the position of the original, leaves the other children
\* and their number as they were, and frees the original and every item and
\* string below it exactly once; an index past the end and a key that is not
\* present change nothing.
C14_Replace == [][ReplaceStep]_vars

\* the second child, an array holding a string, was replaced and freed
C14_Witness ==
  /\ call.op = "ReplaceItemInArray"
  /\ call.which = 1
  /\ Len(ChildrenOf(mem, call.object)) = 2
  /\ ChildrenOf(mem, call.object)[2] = call.item
  /\ \E n \in 1..Len(mem.node) :
       /\ mem.node_frees[n] = 1
       /\ mem.node[n].child # 0
       /\ mem.node_frees[mem.node[n].child] = 1
       /\ mem.text_frees[mem.node[mem.node[n].child].valuestring] = 1

(***************************************************************************)
(* Ownership: duplicates, reference items and keys.                        *)
(***************************************************************************)
BytesAt(m, s) == IF s = 0 THEN <<>> ELSE Str(m, s)

\* what an item holds itself: its kind, its values and its key
Own(m, c) ==
  [kind |-> KindAt(m, c), valueint |-> m.node[c].valueint,
   valuedouble |-> m.node[c].valuedouble,
   hasvalue |-> m.node[c].valuestring # 0,
   value |-> BytesAt(m, m.node[c].valuestring),
   haskey |-> m.node[c].string # 0,
   key |-> BytesAt(m, m.node[c].string)]

\* the structure of the chain that starts at c
RECURSIVE Shape(_, _)
Shape(m, c) ==
  IF c = 0 THEN <<>>
  ELSE <<[own |-> Own(m, c), children |-> Shape(m, m.node[c].child)]>>
       \o Shape(m, m.node[c].next)

\* no item outside the set points into it, and no other item at all has the
\* string value or the children of an item of the set
Unshared(m, items) ==
  /\ \A x \in (1..Len(m.node)) \ items :
       /\ m.node[x].child \notin items
       /\ m.node[x].next \notin items
  /\ \A n \in items : \A x \in (1..Len(m.node)) \ {n} :
       /\ m.node[n].valuestring # 0 =>
            m.node[x].valuestring # m.node[n].valuestring
       /\ m.node[n].child # 0 => m.node[x].child # m.node[n].child

\* the duplicate d of item src in memory m
DuplicateOwns(m, src, d, deep) ==
  /\ \A n \in Reach(m, d) : ~IsRef(m, n) /\ Live(m, n)
  /\ Unshared(m, Reach(m, d))
  /\ m.node[d].next = 0
  /\ m.node[d].prev = 0
  /\ Own(m, d) = Own(m, src)
  /\ IF deep
     THEN Shape(m, m.node[d].child) = Shape(m, m.node[src].child)
     ELSE m.node[d].child = 0

\* a delete step frees the items of the tree and the strings they own once
\* and frees nothing else
DeleteStep ==
  call'.op = "Delete" =>
    /\ FreedOnce(mem, mem', Below(mem, call'.item))
    /\ \A n \in Below(mem, call'.item) : mem.node_frees[n] = 0
    /\ \A t \in OwnedTexts(mem, Below(mem, call'.item)) \ {0} :
         mem.text_frees[t] = 0

\* C15: the duplicate of an item, reference item or not, is no reference
\* item and has none below it; its string value and, for a deep copy, the
\* items below it are new allocations that no other item points to, so
\* deleting duplicate and original in either order frees every allocation
\* once; a deep duplicate has the structure of the source and a shallow one
\* has no children.
C15_Duplicate ==
  /\ [](call.op = "Duplicate" =>
          DuplicateOwns(mem, call.item, call.ret, call.which = 1))
  /\ [][DeleteStep]_vars

\* a reference item to an array that holds a string was duplicated deeply
C15_Witness ==
  /\ call.op = "Duplicate"
  /\ call.which = 1
  /\ IsRef(mem, call.item)
  /\ mem.node[call.ret].child # 0
  /\ mem.node[mem.node[call.ret].child].valuestring # 0

\* the reference items among the items of the set
RefsIn(m, items) == {n \in items : IsRef(m, n)}

\* what a reference item shares: the children and the string value of the
\* item it refers to
SharedItems(m, n) == Span(m, m.node[n].child)
SharedTexts(m, n) == {m.node[n].valuestring} \ {0}

\* a delete step leaves what the reference items of the deleted tree share
\* with items outside the tree as it was: not freed
RefDeleteStep ==
  call'.op = "Delete" =>
    \A n \in RefsIn(mem, Below(mem, call'.item)) :
      /\ mem'.node_frees[n] = 1
      /\ \A x \in SharedItems(mem, n) \ Below(mem, call'.item) :
           mem'.node_frees[x] = 0 /\ mem'.node[x] = mem.node[x]
      /\ \A t \in SharedTexts(mem, n) \ OwnedTexts(mem, Below(mem, call'.item)) :
           mem'.text_frees[t] = 0

\* every item the caller still holds, directly or through a reference item,
\* is live and its string value is live
HeldLive(m, rs) ==
  \A r \in rs : \A n \in Reach(m, r) :
    /\ Live(m, n)
    /\ m.node[n].valuestring # 0 => m.text_frees[m.node[n].valuestring] = 0

NoDoubleFree(m) ==
  /\ \A n \in 1..Len(m.node) : m.node_frees[n] <= 1
  /\ \A t \in 1..Len(m.text) : m.text_frees[t] <= 1

\* a freed item that is no reference item has its string value freed once
FreedWithValue(m) ==
  \A n \in 1..Len(m.node) :
    (m.node_frees[n] = 1 /\ ~IsRef(m, n) /\ m.node[n].valuestring # 0) =>
      m.text_frees[m.node[n].valuestring] = 1

\* C16: deleting a reference item frees neither the string value nor the
\* children that it shares with the item it refers to; after a reference to
\* X was added to a container and the container deleted, X and all it holds
\* are live, and deleting X afterwards frees each of its allocations once:
\* nothing is freed twice and nothing the caller holds is freed.
C16_ReferenceDelete ==
  /\ [](HeldLive(mem, roots) /\ NoDoubleFree(mem) /\ FreedWithValue(mem))
  /\ [][RefDeleteStep]_vars

\* a reference item to a string was deleted with its container, and the
\* string it referred to was deleted after it
C16_Witness ==
  /\ call.op = "Delete"
  /\ ~IsRef(mem, call.item)
  /\ mem.node[call.item].valuestring # 0
  /\ mem.text_frees[mem.node[call.item].valuestring] = 1
  /\ \E n \in 1..Len(mem.node) :
       /\ IsRef(mem, n)
       /\ mem.node_frees[n] = 1
       /\ mem.node[n].valuestring = mem.node[call.item].valuestring

\* a freed item that is no reference item and has a key on the heap has
\* that key freed once
FreedWithKey(m) ==
  \A n \in 1..Len(m.node) :
    (m.node_frees[n] = 1 /\ ~IsRef(m, n) /\ m.node[n].string > 0) =>
      m.text_frees[m.node[n].string] = 1

\* after cJSON_AddItemToObject the item has a copy of the key that no other
\* item has
KeyFresh(m, c) ==
  c.op = "AddItemToObject" =>
    /\ m.node[c.item].string > 0
    /\ m.text_frees[m.node[c.item].string] = 0
    /\ Str(m, m.node[c.item].string) = Str(m, c.string)
    /\ \A x \in (1..Len(m.node)) \ {c.item} :
         m.node[x].string # m.node[c.item].string

\* C17: cJSON_AddItemToObject gives the item its own copy of the key and
\* frees the key the item had only when the item owned it: whatever the
\* caller adds with cJSON_AddItemToObject and cJSON_AddItemToObjectCS,
\* detaches and deletes, no key of the caller (one added with
\* cJSON_AddItemToObjectCS) is passed to cJSON_free, and the key copy of an
\* item is freed once when the item is deleted.
C17_KeyOwnership ==
  /\ mem.const_freed = {}
  /\ KeyFresh(mem, call)
  /\ FreedWithKey(mem)

\* the child at index i of the chain, 0 when i is not the index of a child
ChildAt(chain, i) == IF 0 <= i /\ i < Len(chain) THEN chain[i + 1] ELSE 0

\* C20: cJSON_GetArrayItem(array, i) returns the child at index i when
\* 0 <= i < size and NULL for every other index (a negative one, one at or
\* past the size) and for a NULL array.
C20_GetArrayItem ==
  call.op = "GetArrayItem" =>
    call.ret = IF call.object = 0 THEN 0
               ELSE ChildAt(ChildrenOf(mem, call.object), call.which)

(***************************************************************************)
(* cJSON_Minify.  The text is in memory b: its bytes, the terminator, and  *)
(* the bytes that happen to follow it.  json and into are offsets into b.  *)
(***************************************************************************)
\* *into = *json
CopyByte(b, json, into) == Poke(b, into, <<StrAt(b, json)>>)

\* while (*json && *json != '\n') json++;
RECURSIVE LineEnd(_, _)
LineEnd(b, json) ==
  IF StrAt(b, json) # 0 /\ StrAt(b, json) # 10
  THEN LineEnd(b, json + 1) ELSE json

\* while (*json && !(*json == '*' && json[1] == '/')) json++;
RECURSIVE BlockEnd(_, _)
BlockEnd(b, json) ==
  IF StrAt(b, json) # 0
     /\ ~(StrAt(b, json) = Ch("*") /\ StrAt(b, json + 1) = Ch("/"))
  THEN BlockEnd(b, json + 1) ELSE json

RECURSIVE MinifyFrom(_, _, _)
RECURSIVE MinifyString(_, _, _)
\* the loop that copies a string literal, lines 2230-2238
MinifyString(b, json, into) ==
  IF StrAt(b, json) # 0 /\ StrAt(b, json) # Ch("\"")
  THEN IF StrAt(b, json) = Ch("\\")
       THEN MinifyString(CopyByte(CopyByte(b, json, into), json + 1, into + 1),
                         json + 2, into + 2)
       ELSE MinifyString(CopyByte(b, json, into), json + 1, into + 1)
  ELSE MinifyFrom(CopyByte(b, json, into), json + 1, into + 1)

\* the outer loop, lines 2194-2244, and the terminator stored at the end:
\* the memory and the two pointers when the function returns
MinifyFrom(b, json, into) ==
  IF StrAt(b, json) = 0
  THEN [b |-> Poke(b, into, <<0>>), json |-> json, into |-> into]
  ELSE IF StrAt(b, json) \in {32, 9, 13, 10} THEN MinifyFrom(b, json + 1, into)
  ELSE IF StrAt(b, json) = Ch("/") /\ StrAt(b, json + 1) = Ch("/")
  THEN MinifyFrom(b, LineEnd(b, json), into)
  ELSE IF StrAt(b, json) = Ch("/") /\ StrAt(b, json + 1) = Ch("*")
  THEN MinifyFrom(b, BlockEnd(b, json) + 2, into)
  ELSE IF StrAt(b, json) = Ch("\"")
  THEN MinifyString(CopyByte(b, json, into), json + 1, into + 1)
  ELSE MinifyFrom(CopyByte(b, json, into), json + 1, into + 1)

cJSON_Minify(b) == MinifyFrom(b, 0, 0).b

MaxMinifyTokens == 4

MinifyTokens ==
  { <<32>>, <<10>>, Bytes(<<"/", "/">>), Bytes(<<"/", "*">>),
    Bytes(<<"*", "/">>), Bytes(<<"/">>), Bytes(<<"\"">>), Bytes(<<"\\">>),
    Bytes(<<"1">>) }

\* the text  { "a" : 1 // c<newline> }  of the specification
MinifyScenarios ==
  { <<32>> \o Bytes(<<"{", " ", "\"", "a", "\"", " ", ":", " ", "1", " ",
                      "/", "/", " ", "c">>) \o <<10, 32>> \o Bytes(<<"}">>)
    \o <<32>> }

MinifyInputs == MinifyScenarios \cup TokenTexts(MinifyTokens, MaxMinifyTokens)

\* the bytes that follow the terminator of the caller's text in memory
MinifySlack == { <<0, 0>>, <<49, 0, 0, 0>> }

InitMinify ==
  /\ \E t \in MinifyInputs : Loaded(t)
  /\ bufno = 1
  /\ global_ep = NullPtr
  /\ first = None
  /\ origin = None
  /\ NoTrees

\* the caller minifies its text in place; buffer is the memory afterwards
Minify(slack) ==
  /\ pc = "ready"
  /\ pc' = "minified"
  /\ buffer' = cJSON_Minify(buffer \o <<0>> \o slack)
  /\ UNCHANGED <<input, bufno, require_null_terminated, supplied, root,
                 global_ep, return_parse_end, parse_end, live, made,
                 nomem, grow, over, printed,
                 print_mode, print_fmt, first, origin>>
  /\ UNCHANGED tree_vars

NextMinify == \E slack \in MinifySlack : Minify(slack)

SpecMinify == InitMinify /\ [][NextMinify]_vars

\* what is left of text t from position i (1-based) on when white space and
\* comments outside string literals are taken out; mode is "code", "string",
\* "line" (in a // comment) or "block" (in a /* comment), kept the bytes
\* kept so far.  Gives the bytes kept and the mode at the end of the text.
RECURSIVE Strip(_, _, _, _)
Strip(t, i, mode, kept) ==
  IF i > Len(t) THEN [kept |-> kept, mode |-> mode]
  ELSE IF mode = "code"
  THEN IF t[i] \in {32, 9, 13, 10} THEN Strip(t, i + 1, "code", kept)
       ELSE IF t[i] = Ch("/") /\ StrAt(t, i) = Ch("/")
       THEN Strip(t, i + 2, "line", kept)
       ELSE IF t[i] = Ch("/") /\ StrAt(t, i) = Ch("*")
       THEN Strip(t, i + 2, "block", kept)
       ELSE IF t[i] = Ch("\"")
       THEN Strip(t, i + 1, "string", Append(kept, t[i]))
       ELSE Strip(t, i + 1, "code", Append(kept, t[i]))
  ELSE IF mode = "string"
  THEN IF t[i] = Ch("\\") /\ i < Len(t)
       THEN Strip(t, i + 2, "string", kept \o <<t[i], t[i + 1]>>)
       ELSE IF t[i] = Ch("\"")
       THEN Strip(t, i + 1, "code", Append(kept, t[i]))
       ELSE Strip(t, i + 1, "string", Append(kept, t[i]))
  ELSE IF mode = "line"
  THEN IF t[i] = 10 THEN Strip(t, i + 1, "code", kept)
       ELSE Strip(t, i + 1, "line", kept)
  ELSE IF t[i] = Ch("*") /\ StrAt(t, i) = Ch("/")
       THEN Strip(t, i + 2, "code", kept)
       ELSE Strip(t, i + 1, "block", kept)

Stripped(t) == Strip(t, 1, "code", <<>>)

\* every string literal and every /* comment of the text is closed
Closed(t) == Stripped(t).mode \in {"code", "line"}

\* C18: cJSON_Minify takes every space, tab, CR, LF, // comment and /* */
\* comment that is outside a string literal out of the text and keeps the
\* string literals (with the white space, comment markers and escaped quotes
\* in them) and all other characters as they are and in their order; the
\* text  { "a" : 1 // c<newline> }  becomes {"a":1}.
C18_Minify ==
  (pc = "minified" /\ Closed(input)) =>
    /\ CStr(buffer) = Stripped(input).kept
    /\ input \in MinifyScenarios =>
         CStr(buffer) =
           Bytes(<<"{", "\"", "a", "\"", ":", "1", "}">>)

(***************************************************************************)
(* Printing numbers.  The caller holds a tree built with                   *)
(* cJSON_CreateNumber: a number, or an array or an object with one.        *)
(***************************************************************************)
PrintedDoubles ==
  { NaN, Infinity(FALSE), Infinity(TRUE),
    [neg |-> FALSE, mant |-> 0, exp |-> 0],
    [neg |-> FALSE, mant |-> 1, exp |-> 0],
    [neg |-> TRUE, mant |-> 1, exp |-> 0],
    [neg |-> FALSE, mant |-> 15, exp |-> -1],
    [neg |-> FALSE, mant |-> 1, exp |-> 2] }

\* cJSON_CreateNumber(num)
NumberItem(d) ==
  [cJSON_New_Item EXCEPT !.type = cJSON_Number, !.valuedouble = d,
                         !.valueint = IF NonFinite(d) THEN 0 ELSE TruncInt(d)]

ArrayOf(items) ==
  [cJSON_New_Item EXCEPT !.type = cJSON_Array, !.child = items]

NumberTrees ==
  {NumberItem(d) : d \in PrintedDoubles}
  \cup {ArrayOf(<<NumberItem(d)>>) : d \in PrintedDoubles}
  \cup {ArrayOf(<<NumberItem(d), NumberItem(e)>>) :
          d \in PrintedDoubles, e \in {NaN, [neg |-> FALSE, mant |-> 1, exp |-> 0]}}

InitNumber ==
  /\ \E c \in NumberTrees :
       /\ root = Some(c)
       /\ pc = "parsed"
  /\ input = <<>>
  /\ buffer = <<>>
  /\ bufno = 1
  /\ require_null_terminated = FALSE
  /\ supplied = FALSE
  /\ global_ep = NullPtr
  /\ return_parse_end = None
  /\ parse_end = NullPos
  /\ live = 0
  /\ made = 0
  /\ nomem = {}
  /\ grow = NoGrow
  /\ over = FALSE
  /\ printed = None
  /\ print_mode = "none"
  /\ print_fmt = FALSE
  /\ first = None
  /\ origin = None
  /\ NoTrees

NextNumber ==
  \/ \E fmt \in BOOLEAN : PrintTree(fmt)
  \/ \E n \in PrebufferSizes, fmt \in BOOLEAN : PrintBuffered(n, fmt)

SpecNumber == InitNumber /\ [][NextNumber]_vars

\* the text of a number that is a NaN or an infinity
NullText == Bytes(<<"n", "u", "l", "l">>)

\* C19: a number whose value is a NaN or an infinity is printed as null, by
\* cJSON_Print and cJSON_PrintUnformatted and by cJSON_PrintBuffered, alone
\* and as the only item of an array.
C19_NonFiniteNull ==
  print_mode # "none" =>
    /\ (root[1].type = cJSON_Number /\ NonFinite(root[1].valuedouble)) =>
         printed = Some(NullText)
    /\ (/\ root[1].type = cJSON_Array
        /\ Len(root[1].child) = 1
        /\ NonFinite(root[1].child[1].valuedouble)) =>
         printed = Some(<<Ch("[")>> \o NullText \o <<Ch("]")>>)

(***************************************************************************)
(* Printing a number and parsing the printed text.  The caller holds a     *)
(* number built with cJSON_CreateNumber, prints it, and parses the text.   *)
(* The doubles are values below 2^31 of at most ten significant digits;    *)
(* the two with the exponent -325 are the subnormal doubles                *)
(* 802945 * 2^-1074 and 321178 * 2^-1074, which printf shows with eight    *)
(* and nine digits.                                                        *)
(***************************************************************************)
RoundValues ==
  { <<0, 0>>, <<1, 0>>, <<7, 0>>, <<12, 1>>, <<1, 2>>, <<2147483647, 0>>,
    <<5, -1>>, <<15, -1>>, <<25, -2>>, <<123456789, -3>>,
    <<1, -4>>, <<1, -5>>, <<25, -8>>,
    <<39670754, -325>>, <<158683016, -326>> }

RoundDoubles ==
  { [neg |-> s, mant |-> v[1], exp |-> v[2]] : s \in BOOLEAN, v \in RoundValues }

InitRound ==
  /\ \E d \in RoundDoubles :
       /\ root = Some(NumberItem(d))
       /\ pc = "parsed"
  /\ input = <<>>
  /\ buffer = <<>>
  /\ bufno = 1
  /\ require_null_terminated = FALSE
  /\ supplied = FALSE
  /\ global_ep = NullPtr
  /\ return_parse_end = None
  /\ parse_end = NullPos
  /\ live = 0
  /\ made = 0
  /\ nomem = {}
  /\ grow = NoGrow
  /\ over = FALSE
  /\ printed = None
  /\ print_mode = "none"
  /\ print_fmt = FALSE
  /\ first = None
  /\ origin = None
  /\ NoTrees

NextRound ==
  \/ \E fmt \in BOOLEAN : PrintTree(fmt)
  \/ LoadPrinted
  \/ \E slack \in SlackBytes : Parse(slack)

SpecRound == InitRound /\ [][NextRound]_vars

\* C21: parsing the printed text of a number gives a Number whose value
\* equals the value that was printed.
C21_NumberRoundTrip ==
  (pc = "parsed" /\ first # None) =>
    /\ root # None
    /\ root[1].type = cJSON_Number
    /\ root[1].valuedouble = first[1].valuedouble

(***************************************************************************)
(* Parsing with an allocator that fails.  The caller parses a text while   *)
(* one allocation, the root item or the item or string made at one         *)
(* position of the text, returns NULL; or it parses with an allocator      *)
(* that never fails.                                                       *)
(***************************************************************************)
InitNoMemory ==
  /\ \E t \in StructInputs \cup EscInputs : Loaded(t)
  /\ bufno = 1
  /\ global_ep = NullPtr
  /\ first = None
  /\ origin = None
  /\ NoTrees

\* the allocations a parse of text t may ask for
AllocationsIn(t) ==
  {RootItem} \cup ({"cJSON_New_Item", "cJSON_malloc"} \X (0..Len(t)))

\* the caller runs cJSON_Parse on the loaded text, allocation site failing
ParseNoMemory(site, slack) ==
  /\ pc = "ready"
  /\ ReturnedWithout(ParseIn(buffer, bufno, NoMemory(buffer, slack, {site}),
                             FALSE, FALSE),
                     FALSE, FALSE, {site})

NextNoMemory ==
  \/ \E sup \in BOOLEAN, req \in BOOLEAN, slack \in SlackBytes :
        ParseWithOpts(sup, req, slack)
  \/ \E site \in AllocationsIn(buffer), slack \in SlackBytes :
        ParseNoMemory(site, slack)

SpecNoMemory == InitNoMemory /\ [][NextNoMemory]_vars

\* C22: when the top-level parse returns no tree, after a syntax error or
\* after an allocation returned NULL, every allocation the parse made was
\* handed to cJSON_free once: none is left and none was freed twice.  (A
\* parse that wrote a string past its allocation has damaged the heap and
\* is left out.)
C22_FailedParseFreesAll ==
  (pc = "parsed" /\ root = None /\ ~over) => live = 0

\* C22 happens: an allocation returned NULL after the parse had made at
\* least three others, and all of them were freed
C22_Witness ==
  /\ pc = "parsed"
  /\ root = None
  /\ ~over
  /\ nomem # {}
  /\ global_ep = NullPtr
  /\ made >= 3
  /\ live = 0

(***************************************************************************)
(* Printing strings.  The caller holds a string built with                 *)
(* cJSON_CreateString from at most MaxStringLen bytes and prints it.       *)
(***************************************************************************)
MaxStringLen == 3

\* control characters with and without a short escape, the quote, the
\* backslash, and plain bytes below and above 127
StringBytes == {1, 8, 9, 10, 12, 13, 31, 32, 34, 92, 97, 127, 200}

RECURSIVE StringsUpTo(_)
StringsUpTo(n) ==
  IF n = 0 THEN {<<>>}
  ELSE StringsUpTo(n - 1)
         \cup {Append(v, c) : v \in StringsUpTo(n - 1), c \in StringBytes}

\* cJSON_CreateString(string)
StringItem(v) ==
  [cJSON_New_Item EXCEPT !.type = cJSON_String, !.valuestring = Some(v)]

InitString ==
  /\ \E v \in StringsUpTo(MaxStringLen) :
       /\ root = Some(StringItem(v))
       /\ pc = "parsed"
  /\ input = <<>>
  /\ buffer = <<>>
  /\ bufno = 1
  /\ require_null_terminated = FALSE
  /\ supplied = FALSE
  /\ global_ep = NullPtr
  /\ return_parse_end = None
  /\ parse_end = NullPos
  /\ live = 0
  /\ made = 0
  /\ nomem = {}
  /\ grow = NoGrow
  /\ over = FALSE
  /\ printed = None
  /\ print_mode = "none"
  /\ print_fmt = FALSE
  /\ first = None
  /\ origin = None
  /\ NoTrees

NextString ==
  \/ \E fmt \in BOOLEAN : PrintTree(fmt)
  \/ \E n \in PrebufferSizes, fmt \in BOOLEAN : PrintBuffered(n, fmt)

SpecString == InitString /\ [][NextString]_vars

\* the escape of one byte: a short escape for the five named controls, the
\* quote and the backslash, u and four hex digits of its code for the other
\* bytes below 32, the byte itself otherwise
EscapeOf(c) ==
  CASE c = 8  -> <<Ch("\\"), Ch("b")>>
    [] c = 12 -> <<Ch("\\"), Ch("f")>>
    [] c = 10 -> <<Ch("\\"), Ch("n")>>
    [] c = 13 -> <<Ch("\\"), Ch("r")>>
    [] c = 9  -> <<Ch("\\"), Ch("t")>>
    [] c = Ch("\"") -> <<Ch("\\"), Ch("\"")>>
    [] c = Ch("\\") -> <<Ch("\\"), Ch("\\")>>
    [] OTHER -> IF c < 32 THEN <<Ch("\\"), Ch("u")>> \o ZeroPad4(HexDigits(c))
                ELSE <<c>>

RECURSIVE EscapesOf(_)
EscapesOf(v) == IF v = <<>> THEN <<>> ELSE EscapeOf(Head(v)) \o EscapesOf(Tail(v))

\* C23: a printed string is a quote, the escape of each of its bytes in
\* order, and a quote; a control character without a short escape shows
\* its own code, whatever follows it.
C23_ControlEscapes ==
  (print_mode # "none" /\ root[1].type = cJSON_String) =>
    printed = Some(<<Ch("\"")>> \o EscapesOf(root[1].valuestring[1])
                     \o <<Ch("\"")>>)

\* C27: the second pass of print_string_ptr stores no byte behind the len
\* bytes the first pass asked for (the length of the string, 5 for every
\* escaped character, and 3).
C27_PrintStringWithinSize ==
  (print_mode # "none" /\ root[1].type = cJSON_String) =>
    Len(print_string_ptr(root[1].valuestring).b)
      <= print_string_ptr(root[1].valuestring).len

(***************************************************************************)
(* ensure on sizes of full width.  A size_t is a word of SizeBits bits and *)
(* an int a word of IntBits bits in two's complement; bit i - 1 of a word  *)
(* w is w[i].  Signed arithmetic wraps and >> on an int copies the sign    *)
(* bit, as in the builds of the library.                                   *)
(***************************************************************************)
IntBits == 32
SizeBits == 64
INT_MAX == 2147483647

RECURSIVE Pow2(_)
Pow2(k) == IF k = 0 THEN 1 ELSE 2 * Pow2(k - 1)

\* the bits f(1), ..., f(w) as a word
Bits(f, w) == SubSeq(f, 1, w)

\* the word of w bits of a number n <= INT_MAX
Word(n, w) ==
  Bits([i \in 1..w |-> IF i < IntBits THEN (n \div Pow2(i - 1)) % 2 ELSE 0], w)

\* a + b sends a carry into bit i: a lower bit j makes one and the bits
\* between pass it on
Carry(a, b, i) ==
  \E j \in 1..(i - 1) :
     /\ a[j] + b[j] = 2
     /\ \A k \in (j + 1)..(i - 1) : a[k] + b[k] >= 1

\* a + b modulo 2^Len(a)
Plus(a, b) ==
  Bits([i \in 1..Len(a) |->
          ((a[i] + b[i]) + (IF Carry(a, b, i) THEN 1 ELSE 0)) % 2], Len(a))

\* a <= b as unsigned numbers
Leq(a, b) ==
  \/ a = b
  \/ \E i \in 1..Len(a) :
        /\ a[i] < b[i]
        /\ \A k \in (i + 1)..Len(a) : a[k] = b[k]

\* x |= x >> k on an int
OrShifted(x, k) ==
  Bits([i \in 1..Len(x) |->
          IF x[i] = 1 \/ x[IF i + k <= Len(x) THEN i + k ELSE Len(x)] = 1
          THEN 1 ELSE 0], Len(x))

\* the conversion of a size_t to int: the low bits
ToInt(s) == SubSeq(s, 1, IntBits)

\* the conversion of an int to size_t: the sign bit fills the upper bits
ToSize(x) == x \o Bits([i \in 1..(SizeBits - IntBits) |-> x[IntBits]], SizeBits - IntBits)

\* pow2gt, lines 149-158, on an int of full width
pow2gtInt(x) ==
  Plus(OrShifted(OrShifted(OrShifted(OrShifted(OrShifted(
         Plus(x, Bits([i \in 1..IntBits |-> 1], IntBits)), 1), 2), 4), 8), 16),
       Word(1, IntBits))

\* What ensure did: ret ("NULL" or "pointer"), the size handed to
\* cJSON_malloc, the number of bytes handed to memcpy (None when not
\* called) and p->length afterwards.
EnsureResult(ret, malloc, memcpy, length) ==
  [ret |-> ret, malloc |-> malloc, memcpy |-> memcpy, length |-> length]

\* ensure, lines 196-219: newsize is known; got says whether cJSON_malloc
\* returned a pointer
EnsureGrown(length, offset, newsize, got) ==
  IF ~Leq(newsize, Word(INT_MAX, SizeBits))
  THEN EnsureResult("NULL", None, None, length)
  ELSE IF ~got
  THEN EnsureResult("NULL", Some(newsize), None, Word(0, SizeBits))
  ELSE EnsureResult("pointer", Some(newsize), Some(offset), newsize)

\* ensure, lines 189-195: needed is the sum of line 189
EnsureNeeded(length, offset, needed, got) ==
  IF Leq(needed, length) THEN EnsureResult("pointer", None, None, length)
  ELSE EnsureGrown(length, offset, ToSize(pow2gtInt(ToInt(needed))), got)

\* ensure(p, needed) with p->buffer not NULL, on the sizes alone
ensureSizes(length, offset, needed, got) ==
  IF length # Word(0, SizeBits) /\ Leq(length, offset)
  THEN EnsureResult("NULL", None, None, length)
  ELSE IF ~Leq(needed, Word(INT_MAX, SizeBits))
  THEN EnsureResult("NULL", None, None, length)
  ELSE EnsureNeeded(length, offset,
                    Plus(Plus(needed, offset), Word(1, SizeBits)), got)

\* lengths a printbuffer has: the prebuffer of cJSON_PrintBuffered, an int,
\* or a size ensure gave it
BufferLengths ==
  { Word(n, SizeBits) : n \in {1, 16, 64, Pow2(IntBits - 2), INT_MAX} }

\* numbers taken from an offset or a length
Backs == { Word(n, SizeBits) : n \in {0, 1, 3, 4, 13} }

\* a - b for b <= a: the word that added to b gives a
Minus(a, b) ==
  Plus(Plus(a, Bits([i \in 1..Len(b) |-> 1 - b[i]], Len(b))), Word(1, Len(a)))

\* byte counts asked for
Requests ==
  { Word(n, SizeBits) : n \in {0, 1, 3, 5, 64, Pow2(IntBits - 2), INT_MAX} }
  \cup { Plus(Word(INT_MAX, SizeBits), Word(1, SizeBits)) }

InitEnsure ==
  /\ \E length \in BufferLengths, back \in Backs, needed \in Requests :
       /\ Leq(back, length)
       /\ back # Word(0, SizeBits)
       /\ grow = [length |-> length, offset |-> Minus(length, back),
                  needed |-> needed, called |-> FALSE]
  /\ input = <<>>
  /\ buffer = <<>>
  /\ pc = "ready"
  /\ require_null_terminated = FALSE
  /\ supplied = FALSE
  /\ root = None
  /\ return_parse_end = None
  /\ parse_end = NullPos
  /\ live = 0
  /\ made = 0
  /\ nomem = {}
  /\ over = FALSE
  /\ printed = None
  /\ print_mode = "none"
  /\ print_fmt = FALSE
  /\ bufno = 1
  /\ global_ep = NullPtr
  /\ first = None
  /\ origin = None
  /\ NoTrees

\* a print function calls ensure(p, needed)
Ensure(got) ==
  /\ ~grow.called
  /\ grow' = [length |-> grow.length, offset |-> grow.offset,
              needed |-> grow.needed, called |-> TRUE,
              did |-> ensureSizes(grow.length, grow.offset, grow.needed, got)]
  /\ UNCHANGED <<input, buffer, bufno, pc, require_null_terminated, supplied,
                 root, global_ep, return_parse_end, parse_end, live, made,
                 nomem, over, printed, print_mode, print_fmt, first, origin>>
  /\ UNCHANGED tree_vars

NextEnsure == \E got \in BOOLEAN : Ensure(got)

SpecEnsure == InitEnsure /\ [][NextEnsure]_vars

\* offset + needed + 1 as a number, without wrapping
Total(g) == Plus(Plus(g.needed, g.offset), Word(1, SizeBits))

\* the request, the total, or the power of two the total is rounded up to
\* is above INT_MAX
TooBig(g) ==
  \/ ~Leq(g.needed, Word(INT_MAX, SizeBits))
  \/ ~Leq(Total(g), Word(Pow2(IntBits - 2), SizeBits))

\* the buffer has to grow: it does not hold offset + needed + 1 bytes
Grows(g) == ~Leq(Total(g), g.length)

\* C24: when the buffer has to grow and the request, offset + request + 1
\* or its power of two is above INT_MAX, ensure returns NULL and has called
\* neither cJSON_malloc nor memcpy; otherwise a new allocation has at least
\* offset + request + 1 bytes, so that the offset bytes copied into it fit.
C24_EnsureNoWrap ==
  grow.called =>
    IF TooBig(grow)
    THEN /\ Grows(grow) \/ ~Leq(grow.needed, Word(INT_MAX, SizeBits))
              => grow.did.ret = "NULL"
         /\ grow.did.malloc = None
         /\ grow.did.memcpy = None
    ELSE /\ grow.did.malloc # None => Leq(Total(grow), grow.did.malloc[1])
         /\ grow.did.memcpy # None => Leq(grow.did.memcpy[1], grow.did.malloc[1])

(***************************************************************************)
(* The chains of children.  The caller appends, inserts, detaches,         *)
(* replaces and deletes; the trees it starts with are linked by            *)
(* cJSON_AddItemToArray, which links an item behind the last child the way *)
(* parse_array and parse_object link the item they parsed.                 *)
(***************************************************************************)
\* cJSON_DeleteItemFromArray, lines 1706-1709
cJSON_DeleteItemFromArray(m, array, which) ==
  Delete(cJSON_DetachItemFromArray(m, array, which).m,
         cJSON_DetachItemFromArray(m, array, which).p)

DeleteItemFromArray(array, which) ==
  /\ IsContainer(mem, array, {cJSON_Array, cJSON_Object})
  /\ MayDeleteAt(array, which)
  /\ TreeStep(cJSON_DeleteItemFromArray(mem, array, which), roots,
              Called("DeleteItemFromArray", array, 0, which, 0, 0))

NextChain ==
  \/ NextEdit
  \/ \E a \in Pointers, w \in Indexes : DeleteItemFromArray(a, w)
  \/ \E i \in Pointers : DeleteTree(i)

SpecChain == InitEdit /\ [][NextChain]_vars

\* following next from the first child of parent ends at NULL before more
\* steps are made than there are items
ChainEnds(m, parent) == Walk(m, m.node[parent].child, Len(m.node)) = 0

\* the items that have not been freed
LiveItems(m) == {n \in 1..Len(m.node) : Live(m, n)}

\* C25: the chain of children of every item ends at next == NULL, its first
\* child has prev == NULL, every further child has the child before it as
\* prev, no child is in the chain twice or has been freed, and no item is
\* in the chains of two items.
C25_ChainsWellFormed ==
  /\ \A p \in LiveItems(mem) :
       /\ ChainEnds(mem, p)
       /\ WellLinked(mem, p)
       /\ Items(ChildrenOf(mem, p)) \subseteq LiveItems(mem)
  /\ \A p \in LiveItems(mem), q \in LiveItems(mem) :
       p # q => Items(ChildrenOf(mem, p)) \cap Items(ChildrenOf(mem, q)) = {}

\* three calls changed chains, the last one deleting or replacing a child,
\* and a chain of two children or more is left
C25_Witness ==
  /\ calls = MaxCalls
  /\ call.op \in {"DeleteItemFromArray", "ReplaceItemInArray",
                  "ReplaceItemViaPointer"}
  /\ \E n \in 1..Len(mem.node) : ~Live(mem, n)
  /\ \E p \in LiveItems(mem) : Len(ChildrenOf(mem, p)) >= 2

(***************************************************************************)
(* The two loops of parse_string on the same string.                       *)
(***************************************************************************)
\* where the two loops stopped: the first at p1.ptr, the second at p2.ptr
StringEndsSame(p1, p2) == p2.ptr = p1.ptr

\* the first loop returned p1 for the string at str: the second loop stops
\* where the first one did
StringLoopsAgree(cx, str, p1) ==
  p1.ok => StringEndsSame(p1, StringPass2(p1.t, cx, str + 1, <<>>))

\* the text is a string from its first byte on
OpensString(t) == t # <<>> /\ t[1] = Ch("\"")

\* C26: the second loop of parse_string stores no more bytes, terminator
\* included, than the first loop measured and allocated, and it stops at
\* the closing quote the first loop stopped at.
C26_SecondPassWithinFirst ==
  (pc = "parsed" /\ OpensString(input)) =>
    /\ ~over
    /\ \A slack \in SlackBytes :
         StringLoopsAgree(Context(input, slack), 0,
                          StringPass1(input, Context(input, slack), 1, 0))

(***************************************************************************)
(* The caller's text after a parse.                                        *)
(***************************************************************************)
\* C28: when cJSON_Parse or cJSON_ParseWithOpts has returned, with an item
\* or with NULL, the caller's buffer holds the bytes the caller put there.
C28_InputUnchanged == pc = "parsed" => buffer = input

(***************************************************************************)
(* Looking a key up among children that have none.  The children of an     *)
(* array have string == NULL.  cJSON_strcasecmp tests its arguments for    *)
(* NULL; strcmp does not, and what strcmp(NULL, string) does is undefined: *)
(* the read of address 0 faults, or the call returns some number.          *)
(***************************************************************************)
\* the lookup did not return: the process was stopped by the fault
Fault == -1

\* what strcmp does with a NULL argument: it faults, or it returns zero or
\* a number other than zero
NullKeyOutcomes == {Fault, 0, 1}

\* the loop of cJSON_GetObjectItemCaseSensitive, lines 1572-1575, from child
\* c, with the outcome ub of strcmp(NULL, string)
RECURSIVE FindExactKeyless(_, _, _, _)
FindExactKeyless(m, c, string, ub) ==
  IF c = 0 THEN 0
  ELSE IF m.node[c].string = 0
  THEN (IF ub = Fault THEN Fault
        ELSE IF ub # 0 THEN FindExactKeyless(m, m.node[c].next, string, ub)
        ELSE c)
  ELSE IF strcmp(m, m.node[c].string, string) # 0
  THEN FindExactKeyless(m, m.node[c].next, string, ub)
  ELSE c

\* that loop hands strcmp a string that is NULL
RECURSIVE ReadsNullKey(_, _, _)
ReadsNullKey(m, c, string) ==
  /\ c # 0
  /\ \/ m.node[c].string = 0
     \/ /\ strcmp(m, m.node[c].string, string) # 0
        /\ ReadsNullKey(m, m.node[c].next, string)

\* the caller looks a key up in an array or object it holds
LookupCaseSensitive(object, string, ub) ==
  /\ IsContainer(mem, object, {cJSON_Array, cJSON_Object})
  /\ TreeStep(mem, roots,
              Called("GetObjectItemCaseSensitive", object, 0, 0, string,
                     FindExactKeyless(mem, mem.node[object].child, string, ub)))

LookupCaseInsensitive(object, string) ==
  /\ IsContainer(mem, object, {cJSON_Array, cJSON_Object})
  /\ TreeStep(mem, roots,
              Called("GetObjectItem", object, 0, 0, string,
                     cJSON_GetObjectItem(mem, object, string)))

NextKeyless ==
  \/ \E o \in Pointers, k \in Keys, ub \in NullKeyOutcomes :
        LookupCaseSensitive(o, k, ub)
  \/ \E o \in Pointers, k \in Keys : LookupCaseInsensitive(o, k)

SpecKeyless == InitLookup /\ [][NextKeyless]_vars

\* the last call looked a key up in an array that has children
AskedOfArray ==
  /\ call.object # 0
  /\ KindAt(mem, call.object) = cJSON_Array
  /\ mem.node[call.object].child # 0

\* C29: a lookup of a key among the children of an array, which have no
\* key, returns NULL, the case-sensitive one like the case-insensitive one,
\* and hands no NULL key to strcmp.
C29_KeylessLookup ==
  AskedOfArray =>
    /\ call.op = "GetObjectItem" => call.ret = 0
    /\ call.op = "GetObjectItemCaseSensitive" =>
         /\ call.ret = 0
         /\ ~ReadsNullKey(mem, mem.node[call.object].child, call.string)

(***************************************************************************)
(* The pointers of cJSON_Minify.  The terminator of the text t is at       *)
(* offset Len(t).                                                          *)
(***************************************************************************)
\* the pointers json and into with which cJSON_Minify returns are in the
\* text, into not behind json
CursorsInside(t, r) == r.json <= Len(t) /\ r.into <= r.json

\* C30: cJSON_Minify returns with its read pointer at the terminator of the
\* text or before it and its write pointer not past the read pointer, so
\* the text it leaves is not longer than the text it was given.
C30_MinifyCursorsInside ==
  pc = "minified" =>
    /\ \A slack \in MinifySlack :
         CursorsInside(input, MinifyFrom((input \o <<0>>) \o slack, 0, 0))
    /\ Len(CStr(buffer)) <= Len(input)

====
